---- MODULE Spec2Model ----
(***************************************************************************)
(* Model of src/streamlit_app.py: the reconciliation pipeline of main()    *)
(* (clean join keys, merge, derive ActualCT / Efficiency, select and       *)
(* convert columns, quality filter, station analytics).                    *)
(*                                                                         *)
(* Column names of the source and the ASCII names used here:               *)
(*   PartNo = liao-hao (part number)      Process = gong-xu (operation)    *)
(*   StdWork = biao-gong                  StandardCT = biao-zhun CT        *)
(*   Station = gong-zhan                  Name = xing-ming                 *)
(*   OperatorHours = ren-yuan zuo-ye shi-jian                              *)
(*   TheoreticalOutput = li-lun chan-chu  ActualOutput = shi-ji chan-chu   *)
(*   ActualCT = shi-ji CT                 Efficiency = xiao-lu (text, "%") *)
(*   EfficiencyValue = xiao-lu-zhi (numeric percent)                       *)
(*   HeadCount = ren-shu                  CTDiff, CTDiffRate = CT cha-yi   *)
(*   WorkTime = zuo-ye shi-jian           WorkContent = gong-zuo nei-rong  *)
(*   Output = chan-chu                    RunHours = RUN zong shi-shu      *)
(*                                                                         *)
(* A cell is a record [kind, n, d, s]: a float is an exact rational n/d    *)
(* (kind "num"), NaN, +inf or -inf; a text cell (kind "str") carries its   *)
(* characters in s.  A DataFrame is [columns, rows]; a row is [idx, v]     *)
(* with idx the pandas index label and v a function from column to cell.   *)
(***************************************************************************)
EXTENDS Integers, Sequences, FiniteSets, TLC

----------------------------------------------------------------------------
(* Cells *)

NaN == [kind |-> "nan", n |-> 0, d |-> 1, s |-> <<>>]
PosInf == [kind |-> "inf", n |-> 1, d |-> 1, s |-> <<>>]
NegInf == [kind |-> "inf", n |-> -1, d |-> 1, s |-> <<>>]
Str(chars) == [kind |-> "str", n |-> 0, d |-> 1, s |-> chars]

Abs(x) == IF x < 0 THEN -x ELSE x

RECURSIVE GCD(_, _)
GCD(a, b) == IF b = 0 THEN a ELSE GCD(b, a % b)

\* The float n/d, d # 0, in lowest terms with a positive denominator.
Rat(n, d) ==
    LET g == GCD(Abs(n), Abs(d))
        sg == IF d < 0 THEN -1 ELSE 1
    IN [kind |-> "num", n |-> (sg * n) \div g, d |-> Abs(d) \div g, s |-> <<>>]

Num(n) == Rat(n, 1)

IsNum(x) == x.kind = "num"
IsNaN(x) == x.kind = "nan"
IsInf(x) == x.kind = "inf"
IsStr(x) == x.kind = "str"
\* pandas isna / notna: only NaN is missing (inf and text are not).
isna(x) == IsNaN(x)
notna(x) == ~IsNaN(x)

Sign(x) == IF IsInf(x) THEN x.n ELSE IF x.n > 0 THEN 1 ELSE IF x.n < 0 THEN -1 ELSE 0

\* IEEE-754 multiplication as numpy applies it element-wise.
FMul(x, y) ==
    IF IsNaN(x) \/ IsNaN(y) THEN NaN
    ELSE IF IsInf(x) \/ IsInf(y)
         THEN IF Sign(x) * Sign(y) = 0 THEN NaN
              ELSE IF Sign(x) * Sign(y) > 0 THEN PosInf ELSE NegInf
         ELSE Rat(x.n * y.n, x.d * y.d)

\* IEEE-754 division as numpy applies it element-wise: x/0 is +-inf, 0/0 is
\* NaN, and no exception is raised for a float column.
FDiv(x, y) ==
    IF IsNaN(x) \/ IsNaN(y) THEN NaN
    ELSE IF IsInf(x) /\ IsInf(y) THEN NaN
    ELSE IF IsInf(x) THEN (IF Sign(y) < 0 THEN (IF Sign(x) > 0 THEN NegInf ELSE PosInf) ELSE x)
    ELSE IF IsInf(y) THEN Num(0)
    ELSE IF y.n = 0
         THEN IF x.n = 0 THEN NaN ELSE IF x.n > 0 THEN PosInf ELSE NegInf
         ELSE Rat(x.n * y.d, x.d * y.n)

FSub(x, y) ==
    IF IsNaN(x) \/ IsNaN(y) THEN NaN
    ELSE IF IsInf(x) /\ IsInf(y) THEN (IF x = y THEN NaN ELSE x)
    ELSE IF IsInf(x) THEN x
    ELSE IF IsInf(y) THEN (IF Sign(y) > 0 THEN NegInf ELSE PosInf)
    ELSE Rat(x.n * y.d - y.n * x.d, x.d * y.d)

FAbs(x) ==
    IF IsNaN(x) THEN NaN ELSE IF IsInf(x) THEN PosInf ELSE Rat(Abs(x.n), x.d)

\* Float comparisons: every comparison with NaN is False.
FLt(x, y) ==
    IF IsNaN(x) \/ IsNaN(y) THEN FALSE
    ELSE IF IsInf(x) THEN Sign(x) < 0 /\ x # y
    ELSE IF IsInf(y) THEN Sign(y) > 0
    ELSE x.n * y.d < y.n * x.d
FGt(x, y) == FLt(y, x)
FGe(x, y) == ~IsNaN(x) /\ ~IsNaN(y) /\ ~FLt(x, y)
FLe(x, y) == FGe(y, x)

\* Series.fillna(0)
fillna0(x) == IF IsNaN(x) THEN Num(0) ELSE x

\* Floor of the rational n/d, d > 0.
Floor(n, d) == IF n >= 0 THEN n \div d ELSE -((-n + d - 1) \div d)

\* Series.round(2): to the nearest 1/100, ties to the even hundredth.
round2(x) ==
    IF ~IsNum(x) THEN x
    ELSE LET q == Floor(x.n * 100, x.d)
             r == x.n * 100 - q * x.d
             up == \/ 2 * r > x.d
                   \/ 2 * r = x.d /\ q % 2 = 1
         IN Rat(IF up THEN q + 1 ELSE q, 100)

----------------------------------------------------------------------------
(* Text *)

Digits == <<"0", "1", "2", "3", "4", "5", "6", "7", "8", "9">>
IsDigit(c) == \E k \in 1..10 : Digits[k] = c
DigitVal(c) == (CHOOSE k \in 1..10 : Digits[k] = c) - 1

RECURSIVE NatStr(_)
NatStr(k) == IF k < 10 THEN <<Digits[k + 1]>> ELSE NatStr(k \div 10) \o <<Digits[(k % 10) + 1]>>

\* str(float) (Python's repr) of a float with at most two decimals: the
\* shortest digits that read back, at least one decimal.
float_str(x) ==
    IF IsNaN(x) THEN <<"n", "a", "n">>
    ELSE IF IsInf(x) THEN (IF x.n > 0 THEN <<"i", "n", "f">> ELSE <<"-", "i", "n", "f">>)
    ELSE LET h == (Abs(x.n) * 100) \div x.d
             frac == h % 100
         IN (IF x.n < 0 THEN <<"-">> ELSE <<>>)
            \o NatStr(h \div 100) \o <<".">>
            \o (IF frac % 10 = 0 THEN <<Digits[(frac \div 10) + 1]>>
                ELSE <<Digits[(frac \div 10) + 1], Digits[(frac % 10) + 1]>>)

\* Series.astype(str) of one cell: text stays, NaN becomes the text "nan".
astype_str(x) == IF IsStr(x) THEN x ELSE Str(float_str(x))

IsSpace(c) == c = " "

RECURSIVE lstrip(_)
lstrip(s) == IF s # <<>> /\ IsSpace(Head(s)) THEN lstrip(Tail(s)) ELSE s

RECURSIVE rstrip(_)
rstrip(s) == IF s # <<>> /\ IsSpace(s[Len(s)]) THEN rstrip(SubSeq(s, 1, Len(s) - 1)) ELSE s

\* Series.str.strip() of one cell (a non-text cell gives NaN).
str_strip(x) == IF IsStr(x) THEN Str(rstrip(lstrip(x.s))) ELSE NaN

\* The regex ^\s*$ : the text is empty or all whitespace.
IsBlank(s) == \A i \in 1..Len(s) : IsSpace(s[i])

\* Series.str.replace('%', '') of one cell.
str_replace_pct(x) == IF IsStr(x) THEN Str(SelectSeq(x.s, LAMBDA c : c # "%")) ELSE NaN

RECURSIVE DigitsVal(_)
DigitsVal(s) == IF s = <<>> THEN 0 ELSE DigitsVal(SubSeq(s, 1, Len(s) - 1)) * 10 + DigitVal(s[Len(s)])

AllDigits(s) == \A i \in 1..Len(s) : IsDigit(s[i])

RECURSIVE Pow10(_)
Pow10(k) == IF k = 0 THEN 1 ELSE 10 * Pow10(k - 1)

\* An unsigned decimal literal: digits, optionally a point and digits.
ParseUnsigned(s) ==
    LET dots == {i \in 1..Len(s) : s[i] = "."}
    IN IF dots = {}
       THEN IF s # <<>> /\ AllDigits(s) THEN Num(DigitsVal(s)) ELSE NaN
       ELSE LET p == CHOOSE i \in dots : TRUE
                ip == SubSeq(s, 1, p - 1)
                fp == SubSeq(s, p + 1, Len(s))
            IN IF Cardinality(dots) = 1 /\ AllDigits(ip) /\ AllDigits(fp) /\ Len(ip) + Len(fp) > 0
               THEN Rat(DigitsVal(ip) * Pow10(Len(fp)) + DigitsVal(fp), Pow10(Len(fp)))
               ELSE NaN

\* pd.to_numeric(cell, errors='coerce'): a float stays, a text is parsed,
\* and a text that is no number becomes NaN.
to_numeric(x) ==
    IF ~IsStr(x) THEN x
    ELSE LET t == rstrip(lstrip(x.s))
         IN IF t = <<"n", "a", "n">> THEN NaN
            ELSE IF t = <<"i", "n", "f">> THEN PosInf
            ELSE IF t = <<"-", "i", "n", "f">> THEN NegInf
            ELSE IF t # <<>> /\ Head(t) = "-"
                 THEN FSub(Num(0), ParseUnsigned(Tail(t)))
                 ELSE ParseUnsigned(t)

----------------------------------------------------------------------------
(* DataFrames *)

Range(f) == {f[i] : i \in DOMAIN f}

EmptyFrame == [columns |-> {}, rows |-> <<>>]

\* len(df)
len(df) == Len(df.rows)

\* The index labels of df, in row order.
index(df) == [i \in 1..Len(df.rows) |-> df.rows[i].idx]

\* df[col] = f(row) or df[col] = df[col].map(f): column col is set, for
\* every row, to f of the row's cells.
assign(df, col, f(_)) ==
    [columns |-> df.columns \cup {col},
     rows |-> [i \in 1..Len(df.rows) |->
                 [idx |-> df.rows[i].idx,
                  v |-> [c \in df.columns \cup {col} |->
                           IF c = col THEN f(df.rows[i].v) ELSE df.rows[i].v[c]]]]]

\* df[cols] : the projection onto the listed columns.
project(df, cols) ==
    [columns |-> cols,
     rows |-> [i \in 1..Len(df.rows) |->
                 [idx |-> df.rows[i].idx, v |-> [c \in cols |-> df.rows[i].v[c]]]]]

\* df.rename(columns={old: new}) for an existing column old.
rename(df, old, new) ==
    LET cols == (df.columns \ {old}) \cup {new}
    IN [columns |-> cols,
        rows |-> [i \in 1..Len(df.rows) |->
                    [idx |-> df.rows[i].idx,
                     v |-> [c \in cols |-> IF c = new THEN df.rows[i].v[old]
                                           ELSE df.rows[i].v[c]]]]]

\* df[mask] : the rows whose mask entry is True, index labels kept.
RECURSIVE boolean_index_rows(_, _, _)
boolean_index_rows(rows, mask, i) ==
    IF i > Len(rows) THEN <<>>
    ELSE (IF mask[i] THEN <<rows[i]>> ELSE <<>>) \o boolean_index_rows(rows, mask, i + 1)

\* Faulty variant: the kept rows relabelled 0, 1, ... (a reset index).
boolean_index_reset(df, mask) ==
    LET kept == boolean_index_rows(df.rows, mask, 1)
    IN [columns |-> df.columns,
        rows |-> [i \in 1..Len(kept) |-> [idx |-> i - 1, v |-> kept[i].v]]]

boolean_index(df, mask) ==
    [columns |-> df.columns, rows |-> boolean_index_rows(df.rows, mask, 1)]

\* np.logical_and.reduce over a non-empty list of masks of equal length.
logical_and_reduce(masks) ==
    [i \in 1..Len(masks[1]) |-> \A k \in 1..Len(masks) : masks[k][i]]

----------------------------------------------------------------------------
(* Key cleaning, main() lines 712-728 *)

\* df.replace('', np.nan): a cell that is exactly the empty text becomes NaN.
replace_empty(df) ==
    [columns |-> df.columns,
     rows |-> [i \in 1..Len(df.rows) |->
                 [idx |-> df.rows[i].idx,
                  v |-> [c \in df.columns |->
                           IF df.rows[i].v[c] = Str(<<>>) THEN NaN ELSE df.rows[i].v[c]]]]]

\* The columns the loop of line 720 strips.
StripColumns == {"PartNo", "Process"}

\* df[col] = df[col].astype(str).str.strip() for the columns of line 720
\* that the frame has.
strip_keys(df) ==
    [columns |-> df.columns,
     rows |-> [i \in 1..Len(df.rows) |->
                 [idx |-> df.rows[i].idx,
                  v |-> [c \in df.columns |->
                           IF c \in StripColumns
                           THEN str_strip(astype_str(df.rows[i].v[c]))
                           ELSE df.rows[i].v[c]]]]]

\* df.dropna(subset=cols): the rows with no NaN in the listed columns.
dropna(df, cols) ==
    boolean_index(df, [i \in 1..Len(df.rows) |-> \A c \in cols : notna(df.rows[i].v[c])])

\* Lines 716-728 for one file.
clean_keys(df, merge_columns) == dropna(strip_keys(replace_empty(df)), merge_columns)

----------------------------------------------------------------------------
(* pd.merge, main() lines 746-752 *)

\* The elements of a finite set of integers in ascending order.
RECURSIVE Ascending(_)
Ascending(S) ==
    IF S = {} THEN <<>>
    ELSE LET m == CHOOSE x \in S : \A y \in S : x <= y
         IN <<m>> \o Ascending(S \ {m})

\* Code-point order of the characters that occur in key cells.
Alphabet ==
    <<" ", "%", "-", ".", "0", "1", "2", "3", "4", "5", "6", "7", "8", "9",
      "A", "B", "C", "D", "E", "F", "G", "H", "I", "J", "K", "L", "M", "N", "O",
      "P", "Q", "R", "S", "T", "U", "V", "W", "X", "Y", "Z", "_",
      "a", "b", "c", "d", "e", "f", "g", "h", "i", "j", "k", "l", "m", "n", "o",
      "p", "q", "r", "s", "t", "u", "v", "w", "x", "y", "z">>
CharRank(c) == CHOOSE k \in 1..Len(Alphabet) : Alphabet[k] = c

\* Python's < on two texts.
RECURSIVE TextLess(_, _)
TextLess(s, t) ==
    IF t = <<>> THEN FALSE
    ELSE IF s = <<>> THEN TRUE
    ELSE IF Head(s) = Head(t) THEN TextLess(Tail(s), Tail(t))
    ELSE CharRank(Head(s)) < CharRank(Head(t))

\* The order in which the key columns are compared when an outer merge
\* sorts its keys (the order of the selection list).
KeyOrder == <<"PartNo", "Process", "Line">>

RECURSIVE KeyLessFrom(_, _, _, _)
KeyLessFrom(a, b, on, k) ==
    IF k > Len(KeyOrder) THEN FALSE
    ELSE IF KeyOrder[k] \notin on \/ a[KeyOrder[k]] = b[KeyOrder[k]]
         THEN KeyLessFrom(a, b, on, k + 1)
         ELSE TextLess(astype_str(a[KeyOrder[k]]).s, astype_str(b[KeyOrder[k]]).s)

\* The composite key of a row: its cells in every column of `on`.
key_of(row, on) == [c \in on |-> row.v[c]]

\* Faulty variant: a row matches when it agrees on some key column (per-column
\* union instead of the composite key).
RightMatchesAnyColumn(L, R, on, i) ==
    {j \in 1..Len(R.rows) : \E c \in on : R.rows[j].v[c] = L.rows[i].v[c]}

\* The rows of R (positions) whose composite key equals that of L's row i:
\* equality on all key columns at once.
RightMatches(L, R, on, i) ==
    {j \in 1..Len(R.rows) : key_of(R.rows[j], on) = key_of(L.rows[i], on)}
LeftMatches(L, R, on, j) ==
    {i \in 1..Len(L.rows) : key_of(L.rows[i], on) = key_of(R.rows[j], on)}

\* The matched pairs <<i, j>> in the order of the left rows; an unmatched
\* left row gives <<i, 0>> when keep is set.
RECURSIVE LeftOrderPairs(_, _, _, _, _)
LeftOrderPairs(L, R, on, keep, i) ==
    IF i > Len(L.rows) THEN <<>>
    ELSE LET m == Ascending(RightMatches(L, R, on, i))
         IN (IF m = <<>> THEN (IF keep THEN << <<i, 0>> >> ELSE <<>>)
             ELSE [k \in 1..Len(m) |-> <<i, m[k]>>])
            \o LeftOrderPairs(L, R, on, keep, i + 1)

\* The pairs in the order of the right rows; an unmatched right row gives
\* <<0, j>> when keep is set, and matched right rows are left out when
\* onlyUnmatched is set.
RECURSIVE RightOrderPairs(_, _, _, _, _, _)
RightOrderPairs(L, R, on, keep, onlyUnmatched, j) ==
    IF j > Len(R.rows) THEN <<>>
    ELSE LET m == Ascending(LeftMatches(L, R, on, j))
         IN (IF m = <<>> THEN (IF keep THEN << <<0, j>> >> ELSE <<>>)
             ELSE IF onlyUnmatched THEN <<>>
             ELSE [k \in 1..Len(m) |-> <<m[k], j>>])
            \o RightOrderPairs(L, R, on, keep, onlyUnmatched, j + 1)

PairKey(L, R, on, p) ==
    IF p[1] # 0 THEN key_of(L.rows[p[1]], on) ELSE key_of(R.rows[p[2]], on)

\* Stable insertion of pair p into a sequence sorted by key.
RECURSIVE InsertByKey(_, _, _, _, _)
InsertByKey(L, R, on, sorted, p) ==
    IF sorted = <<>> THEN <<p>>
    ELSE IF KeyLessFrom(PairKey(L, R, on, p), PairKey(L, R, on, Head(sorted)), on, 1)
         THEN <<p>> \o sorted
         ELSE <<Head(sorted)>> \o InsertByKey(L, R, on, Tail(sorted), p)

RECURSIVE SortByKey(_, _, _, _)
SortByKey(L, R, on, pairs) ==
    IF pairs = <<>> THEN <<>>
    ELSE InsertByKey(L, R, on,
                     SortByKey(L, R, on, SubSeq(pairs, 1, Len(pairs) - 1)),
                     pairs[Len(pairs)])

\* Faulty variant: a left join that drops the unmatched left rows.
merge_pairs_left_drops(L, R, on, how) ==
    CASE how = "inner" -> LeftOrderPairs(L, R, on, FALSE, 1)
      [] how = "left"  -> LeftOrderPairs(L, R, on, FALSE, 1)
      [] how = "right" -> RightOrderPairs(L, R, on, TRUE, FALSE, 1)
      [] how = "outer" -> SortByKey(L, R, on,
                                    LeftOrderPairs(L, R, on, TRUE, 1)
                                    \o RightOrderPairs(L, R, on, TRUE, TRUE, 1))

\* The row pairs of pd.merge(L, R, on=on, how=how), in result order: inner
\* and left keep the order of the left keys, right that of the right keys,
\* outer sorts the keys.
merge_pairs(L, R, on, how) ==
    CASE how = "inner" -> LeftOrderPairs(L, R, on, FALSE, 1)
      [] how = "left"  -> LeftOrderPairs(L, R, on, TRUE, 1)
      [] how = "right" -> RightOrderPairs(L, R, on, TRUE, FALSE, 1)
      [] how = "outer" -> SortByKey(L, R, on,
                                    LeftOrderPairs(L, R, on, TRUE, 1)
                                    \o RightOrderPairs(L, R, on, TRUE, TRUE, 1))

\* suffixes=('_f1', '_f2') (the source tags of line 751): a non-key column
\* that both frames have is tagged on each side.
left_name(L, R, on, c) == IF c \in R.columns \ on THEN c \o "_f1" ELSE c
right_name(L, R, on, c) == IF c \in L.columns \ on THEN c \o "_f2" ELSE c

merge_columns_of(L, R, on) ==
    on \cup {left_name(L, R, on, c) : c \in L.columns \ on}
       \cup {right_name(L, R, on, c) : c \in R.columns \ on}

\* The merged row of pair p: key cells from the side that has the row, the
\* other columns from their side, NaN where that side has no row.
merge_row(L, R, on, p) ==
    [c \in merge_columns_of(L, R, on) |->
       IF c \in on
       THEN (IF p[1] # 0 THEN L.rows[p[1]].v[c] ELSE R.rows[p[2]].v[c])
       ELSE IF \E lc \in L.columns \ on : left_name(L, R, on, lc) = c
            THEN (IF p[1] # 0
                  THEN L.rows[p[1]].v[CHOOSE lc \in L.columns \ on : left_name(L, R, on, lc) = c]
                  ELSE NaN)
            ELSE (IF p[2] # 0
                  THEN R.rows[p[2]].v[CHOOSE rc \in R.columns \ on : right_name(L, R, on, rc) = c]
                  ELSE NaN)]

\* pd.merge(L, R, on=on, how=how, suffixes=...): a fresh RangeIndex 0..n-1.
merge(L, R, on, how) ==
    LET pairs == merge_pairs(L, R, on, how)
    IN [columns |-> merge_columns_of(L, R, on),
        rows |-> [k \in 1..Len(pairs) |->
                    [idx |-> k - 1, v |-> merge_row(L, R, on, pairs[k])]]]

----------------------------------------------------------------------------
(* Derived columns, main() lines 765-775 *)

\* Lines 766-767.
rename_standard_ct(df) ==
    IF "StdWork" \in df.columns THEN rename(df, "StdWork", "StandardCT") ELSE df

\* Arithmetic on a column that holds a text cell raises TypeError.
HasText(df, col) == \E i \in 1..Len(df.rows) : IsStr(df.rows[i].v[col])

\* Lines 770-771: ActualCT = OperatorHours * 3600 / ActualOutput.
actual_ct_raises(df) ==
    /\ {"OperatorHours", "ActualOutput"} \subseteq df.columns
    /\ HasText(df, "OperatorHours") \/ HasText(df, "ActualOutput")

actual_ct(v) == FDiv(FMul(v["OperatorHours"], Num(3600)), v["ActualOutput"])

\* Faulty variant: without its source columns the column is added all the
\* same, with every cell missing.
add_actual_ct_always(df) ==
    IF {"OperatorHours", "ActualOutput"} \subseteq df.columns
    THEN assign(df, "ActualCT", actual_ct)
    ELSE assign(df, "ActualCT", LAMBDA v : NaN)

add_actual_ct(df) ==
    IF {"OperatorHours", "ActualOutput"} \subseteq df.columns
    THEN assign(df, "ActualCT", actual_ct)
    ELSE df

\* Lines 773-775: Efficiency = ActualOutput / TheoreticalOutput, then the
\* text str(round(ratio * 100, 2)) + '%'.
efficiency_raises(df) ==
    /\ {"ActualOutput", "TheoreticalOutput"} \subseteq df.columns
    /\ HasText(df, "ActualOutput") \/ HasText(df, "TheoreticalOutput")

efficiency_ratio(v) == FDiv(v["ActualOutput"], v["TheoreticalOutput"])

efficiency_text(v) ==
    Str(float_str(round2(FMul(efficiency_ratio(v), Num(100)))) \o <<"%">>)

add_efficiency(df) ==
    IF {"ActualOutput", "TheoreticalOutput"} \subseteq df.columns
    THEN assign(df, "Efficiency", efficiency_text)
    ELSE df

----------------------------------------------------------------------------
(* Column selection and conversion, main() lines 777-795 *)

important_columns ==
    {"Station", "Name", "OperatorHours", "TheoreticalOutput", "ActualOutput",
     "Efficiency", "StandardCT", "ActualCT"}

available_columns(df) == important_columns \cap df.columns

\* Line 795: replace(r'^\s*$', np.nan, regex=True) of one cell.
blank_to_nan(x) == IF IsStr(x) /\ IsBlank(x.s) THEN NaN ELSE x

\* Line 790: the numeric percent read back from the efficiency text.
efficiency_value(v) == to_numeric(str_replace_pct(v["Efficiency"]))

\* Faulty variant: a missing output filled with 0 in the table itself.
convert_cell_fill(c, x) ==
    IF c = "ActualOutput" THEN fillna0(to_numeric(x))
    ELSE IF c = "ActualCT" THEN to_numeric(x)
    ELSE IF c \in {"Name", "Station", "StandardCT"} THEN blank_to_nan(x)
    ELSE x

\* Lines 785-788 and 793-795: the in-place conversions of selected_df.
convert_cell(c, x) ==
    IF c \in {"ActualOutput", "ActualCT"} THEN to_numeric(x)
    ELSE IF c \in {"Name", "Station", "StandardCT"} THEN blank_to_nan(x)
    ELSE x

convert_columns(df) ==
    [columns |-> df.columns,
     rows |-> [i \in 1..Len(df.rows) |->
                 [idx |-> df.rows[i].idx,
                  v |-> [c \in df.columns |-> convert_cell(c, df.rows[i].v[c])]]]]

\* Lines 782-795: selected_df, for a frame with some important column.
select_convert(df) ==
    LET sel == project(df, available_columns(df))
        withValue == IF "Efficiency" \in sel.columns
                     THEN assign(sel, "EfficiencyValue", efficiency_value)
                     ELSE sel
    IN convert_columns(withValue)

----------------------------------------------------------------------------
(* Quality filter, main() lines 797-820 *)

ReservedNames == {<<"M", "F", "G", "R">>, <<"M", "F", "G", "_", "R">>}
ExcludedEfficiencyTexts ==
    {<<"0", ".", "0", "%">>, <<"i", "n", "f", "%">>, <<"n", "a", "n", "%">>}

\* Series.isin(texts) of one cell.
isin(x, texts) == IsStr(x) /\ x.s \in texts

\* Faulty variant: the range with both ends excluded.
between_exclusive(x, lo, hi) == FGt(x, lo) /\ FLt(x, hi)

\* Series.between(lo, hi): both ends included, NaN is False.
between(x, lo, hi) == FGe(x, lo) /\ FLe(x, hi)

MinHours == Rat(3, 100)
MinEfficiencyPct == Num(20)
MaxEfficiencyPct == Num(150)

\* One mask of df for a row predicate.
mask_of(df, P(_)) == [i \in 1..Len(df.rows) |-> P(df.rows[i].v)]

\* Faulty variant: only the first reserved name is excluded.
cond_reserved_name_first(v) == ~isin(v["Name"], {<<"M", "F", "G", "R">>})

\* Faulty variant: the hours compared with 0 instead of 0.03.
cond_hours_nonnegative(v) == FGe(fillna0(v["OperatorHours"]), Num(0))

\* Faulty variant: the text of 100 percent is excluded as well.
cond_efficiency_text_hundred(v) ==
    ~isin(v["Efficiency"], ExcludedEfficiencyTexts \cup {<<"1", "0", "0", ".", "0", "%">>})

cond_hours(v) == FGe(fillna0(v["OperatorHours"]), MinHours)
cond_output(v) == FGe(fillna0(v["ActualOutput"]), Num(0))
cond_actual_ct(v) == FGe(fillna0(v["ActualCT"]), Num(0))
cond_efficiency_text(v) == ~isin(v["Efficiency"], ExcludedEfficiencyTexts)
cond_reserved_name(v) == ~isin(v["Name"], ReservedNames)
\* Faulty variant: the range predicate without its upper bound.
cond_efficiency_range_lower(v) == FGe(v["EfficiencyValue"], MinEfficiencyPct)
cond_efficiency_range(v) == between(v["EfficiencyValue"], MinEfficiencyPct, MaxEfficiencyPct)
cond_station(v) == notna(v["Station"])
cond_standard_ct(v) == notna(v["StandardCT"])
cond_name(v) == notna(v["Name"])

\* Lines 798-817: the list of masks, one per predicate whose column exists.
filter_conditions(df) ==
    (IF "OperatorHours" \in df.columns THEN <<mask_of(df, cond_hours)>> ELSE <<>>)
    \o (IF "ActualOutput" \in df.columns THEN <<mask_of(df, cond_output)>> ELSE <<>>)
    \o (IF "ActualCT" \in df.columns THEN <<mask_of(df, cond_actual_ct)>> ELSE <<>>)
    \o (IF "Efficiency" \in df.columns THEN <<mask_of(df, cond_efficiency_text)>> ELSE <<>>)
    \o (IF "Name" \in df.columns THEN <<mask_of(df, cond_reserved_name)>> ELSE <<>>)
    \o (IF "EfficiencyValue" \in df.columns THEN <<mask_of(df, cond_efficiency_range)>> ELSE <<>>)
    \o (IF "Station" \in df.columns THEN <<mask_of(df, cond_station)>> ELSE <<>>)
    \o (IF "StandardCT" \in df.columns THEN <<mask_of(df, cond_standard_ct)>> ELSE <<>>)
    \o (IF "Name" \in df.columns THEN <<mask_of(df, cond_name)>> ELSE <<>>)

\* Lines 819-820 and 843-844: the conjunction of the masks selects the rows.
apply_filter(sel) ==
    IF filter_conditions(sel) # <<>>
    THEN boolean_index(sel, logical_and_reduce(filter_conditions(sel)))
    ELSE sel

\* Lines 777-852: filtered_df of a merged frame with its derived columns.
quality_filter(df) ==
    IF available_columns(df) # {} THEN apply_filter(select_convert(df)) ELSE df

\* The message of the filter stage: st.success of line 821, or the
\* st.warning of line 846 (no condition) or of line 851 (no column).
filter_notice(df) ==
    IF available_columns(df) = {} THEN "no_columns"
    ELSE IF filter_conditions(select_convert(df)) = <<>> THEN "no_conditions"
    ELSE "filtered"

----------------------------------------------------------------------------
(* Advanced analysis, main() lines 919-974 *)

FAdd(x, y) ==
    IF IsNaN(x) \/ IsNaN(y) THEN NaN
    ELSE IF IsInf(x) /\ IsInf(y) THEN (IF x = y THEN x ELSE NaN)
    ELSE IF IsInf(x) THEN x
    ELSE IF IsInf(y) THEN y
    ELSE Rat(x.n * y.d + y.n * x.d, x.d * y.d)

needed_cols == {"Station", "Name"}
has_ct_cols(df) == {"StandardCT", "ActualCT"} \subseteq df.columns
has_eff_cols(df) == "EfficiencyValue" \in df.columns \/ "Efficiency" \in df.columns

\* Faulty variant: the CT columns required as well.
can_analyse_with_ct(df) ==
    needed_cols \subseteq df.columns /\ has_eff_cols(df) /\ has_ct_cols(df)

\* Line 938: the columns the analysis cannot do without.
can_analyse(df) == needed_cols \subseteq df.columns /\ has_eff_cols(df)

\* Lines 942-945: the efficiency as a ratio.
ratio_from_value(v) == FDiv(to_numeric(v["EfficiencyValue"]), Num(100))
ratio_from_text(v) == FDiv(to_numeric(str_replace_pct(astype_str(v["Efficiency"]))), Num(100))

\* Lines 949-952.
numeric_standard_ct(v) == to_numeric(v["StandardCT"])
numeric_actual_ct(v) == to_numeric(v["ActualCT"])
ct_diff(v) == FSub(v["ActualCT"], v["StandardCT"])
ct_diff_rate(v) == FMul(FDiv(v["CTDiff"], v["StandardCT"]), Num(100))

\* Lines 939-952: analysis_df of base_df.
make_analysis_df(base) ==
    LET withEff == IF "EfficiencyValue" \in base.columns
                   THEN assign(base, "Efficiency", ratio_from_value)
                   ELSE assign(base, "Efficiency", ratio_from_text)
    IN IF has_ct_cols(base)
       THEN assign(assign(assign(assign(withEff, "StandardCT", numeric_standard_ct),
                                 "ActualCT", numeric_actual_ct),
                          "CTDiff", ct_diff),
                   "CTDiffRate", ct_diff_rate)
       ELSE withEff

\* The texts of a set in ascending order (groupby sorts its keys).
RECURSIVE SortTexts(_)
SortTexts(S) ==
    IF S = {} THEN <<>>
    ELSE LET m == CHOOSE x \in S : \A y \in S : ~TextLess(astype_str(y).s, astype_str(x).s)
         IN <<m>> \o SortTexts(S \ {m})

\* The sum of the non-NaN cells of column col over the rows at positions
\* ps (a sequence), and their number: what Series.mean() divides.
RECURSIVE SumOver(_, _, _)
SumOver(df, col, ps) ==
    IF ps = <<>> THEN Num(0)
    ELSE FAdd(IF isna(df.rows[Head(ps)].v[col]) THEN Num(0) ELSE df.rows[Head(ps)].v[col],
              SumOver(df, col, Tail(ps)))

CountNotNa(df, col, P) == Cardinality({i \in P : notna(df.rows[i].v[col])})

\* Series.mean(): NaN cells are skipped; no cell at all gives NaN.
mean_over(df, col, P) ==
    IF CountNotNa(df, col, P) = 0 THEN NaN
    ELSE FDiv(SumOver(df, col, Ascending(P)), Num(CountNotNa(df, col, P)))

\* The group of one station: the positions of its rows.
group_rows(df, station) == {i \in 1..Len(df.rows) : df.rows[i].v["Station"] = station}

\* Faulty variant: the head count as the number of distinct names ('nunique').
head_count_distinct(df, P) == Cardinality({df.rows[i].v["Name"] : i \in {j \in P : notna(df.rows[j].v["Name"])}})
\* The head count of one group: 'count' of the Name column.
head_count(df, P) == CountNotNa(df, "Name", P)

\* Lines 955-959: groupby('Station').agg(mean of Efficiency, count of Name),
\* HeadCount renamed, the mean scaled by 100.  groupby drops NaN keys and
\* sorts the groups by key.
compute_station_metrics(df) ==
    LET keys == SortTexts({df.rows[i].v["Station"] : i \in {j \in 1..Len(df.rows) : notna(df.rows[j].v["Station"])}})
    IN [columns |-> {"Station", "Efficiency", "HeadCount"},
        rows |-> [k \in 1..Len(keys) |->
                    [idx |-> k - 1,
                     v |-> [c \in {"Station", "Efficiency", "HeadCount"} |->
                              CASE c = "Station" -> keys[k]
                                [] c = "Efficiency" ->
                                     FMul(mean_over(df, "Efficiency", group_rows(df, keys[k])), Num(100))
                                [] c = "HeadCount" ->
                                     Num(head_count(df, group_rows(df, keys[k])))]]]]

too_low == Rat(4, 5)
too_high == Rat(21, 20)
ct_abnormal_pct == Num(20)

\* Lines 964-965.
is_low(v) == FLt(v["Efficiency"], too_low)
\* Faulty variant: the threshold compared with the percent instead of the ratio.
is_high_percent(v) == FGt(FMul(v["Efficiency"], Num(100)), too_high)
is_high(v) == FGt(v["Efficiency"], too_high)
\* Line 972.
is_ct_abnormal(v) == FGt(FAbs(v["CTDiffRate"]), ct_abnormal_pct)

compute_low_efficiency(df) == boolean_index(df, mask_of(df, is_low))
compute_high_efficiency(df) == boolean_index(df, mask_of(df, is_high))

ct_abnormal_columns == {"Station", "Name", "StandardCT", "ActualCT", "CTDiff", "CTDiffRate"}

\* Faulty variant: without the CT columns, a table with no columns at all.
compute_ct_abnormal_bare(df, hasCT) ==
    IF hasCT THEN boolean_index(df, mask_of(df, is_ct_abnormal))
    ELSE EmptyFrame

\* Lines 971-974.
compute_ct_abnormal(df, hasCT) ==
    IF hasCT THEN boolean_index(df, mask_of(df, is_ct_abnormal))
    ELSE [columns |-> ct_abnormal_columns, rows |-> <<>>]

\* Row a may stand before row b in a descending sort with NaN last.
MayPrecede(a, b) ==
    /\ ~(isna(a.v["Efficiency"]) /\ notna(b.v["Efficiency"]))
    /\ ~FGt(b.v["Efficiency"], a.v["Efficiency"])

\* sort_values('Efficiency', ascending=False) with the default
\* kind='quicksort', which is not a stable sort: every arrangement of the
\* rows (a set S of rows) that is descending with NaN last is a possible
\* result; the rows of equal efficiency come in any order.
RECURSIVE sort_values_desc(_)
sort_values_desc(S) ==
    IF S = {} THEN {<<>>}
    ELSE UNION {{<<m>> \o rest : rest \in sort_values_desc(S \ {m})} :
                m \in {a \in S : \A b \in S : MayPrecede(a, b)}}

\* The number of top performers kept (line 968).
TopN == 10

\* DataFrame.head(n) of a sequence of rows.
head(rows, n) == SubSeq(rows, 1, IF Len(rows) < n THEN Len(rows) ELSE n)

\* The possible values of top_performers (line 968).
top_performers_of(df) ==
    {[columns |-> df.columns, rows |-> head(s, TopN)] : s \in sort_values_desc(Range(df.rows))}

\* The outcome of a report generator: not called, rendered with its
\* best-station scalar, or left by an exception.
NoReport == [state |-> "none", best_station |-> NaN]
Rendered(station) == [state |-> "rendered", best_station |-> station]
ReportRaised == [state |-> "ValueError", best_station |-> NaN]

\* The stations of df in groupby order and the mean efficiency of each.
station_keys(df) ==
    SortTexts({df.rows[i].v["Station"] : i \in {j \in 1..Len(df.rows) : notna(df.rows[j].v["Station"])}})
station_mean(df, station) == mean_over(df, "Efficiency", group_rows(df, station))

\* Line 615: df.groupby('Station')['Efficiency'].mean().idxmax().  On an
\* empty Series idxmax raises ValueError; on means that are all NaN it
\* raises or gives NaN, depending on the pandas version; otherwise it gives
\* the first station with the greatest mean.
best_station(df) ==
    LET keys == station_keys(df)
        valid == {k \in 1..Len(keys) : notna(station_mean(df, keys[k]))}
    IN IF keys = <<>> THEN {ReportRaised}
       ELSE IF valid = {} THEN {ReportRaised, Rendered(NaN)}
       ELSE {Rendered(keys[CHOOSE k \in valid :
                              \A l \in valid :
                                 /\ ~FGt(station_mean(df, keys[l]), station_mean(df, keys[k]))
                                 /\ (station_mean(df, keys[l]) = station_mean(df, keys[k]) => k <= l)])}

\* Lines 470-626 (and 184-468, which builds the same template data).
generate_html_report(df) == best_station(df)

----------------------------------------------------------------------------
(* One run of the script: main() lines 644-1164 *)

VARIABLES
    pc,               \* "uploaded": the files are chosen; "ready": they are read
                      \* and the widgets are set; "done": the script has run
    labels,           \* the column labels of the two files, in file order:
                      \* list(df1.columns) and list(df2.columns) (lines 686, 692)
    df1, df2,         \* the two uploaded tables after the renaming of lines 653-675
    merge_columns,    \* the selected join keys (line 703)
    merge_method,     \* the selected join mode (line 737)
    button,           \* whether the run button was pressed (line 743)
    session_state,    \* st.session_state
    status,           \* how the run ended: "ok", "analysis_skipped" (line 1156),
                      \* "analysis_error" (line 1158), "derive_error" or
                      \* "stats_error" (line 1161), "no_keys" (line 1164),
                      \* "idle" (the button of line 743 not pressed)
    notice,           \* the message of the filter stage (lines 821, 846, 851)
    df1_filtered, df2_filtered, merged_df, filtered_df,
    analysis_df, station_metrics, low_efficiency, high_efficiency,
    top_performers, ct_abnormal,
    html_report       \* the outcome of generate_html_report (line 1048)

inputs == <<labels, df1, df2, merge_columns, merge_method, button>>
outputs == <<status, notice, df1_filtered, df2_filtered, merged_df, filtered_df,
             analysis_df, station_metrics, low_efficiency, high_efficiency,
             top_performers, ct_abnormal, html_report>>
vars == <<pc, inputs, session_state, outputs>>

\* The column labels in the order the input families write them.
ColumnOrder ==
    <<"PartNo", "Line", "Station", "StdWork", "Name", "OperatorHours",
      "TheoreticalOutput", "ActualOutput">>
LabelsOf(cols) == SelectSeq(ColumnOrder, LAMBDA c : c \in cols)
labels_of(f1, f2) == [file1 |-> LabelsOf(f1.columns), file2 |-> LabelsOf(f2.columns)]

\* Lines 657-660: the renaming of the first file; a pair is entered only
\* if its source label is among the labels.
rename_mapping_1(ls) ==
    [c \in {"WorkTime", "WorkContent"} \cap Range(ls) |->
        IF c = "WorkTime" THEN "StdWork" ELSE "Station"]

\* Faulty variant: the pairs of the first file entered for the second too.
rename_mapping_2_both(ls) ==
    [c \in {"Output", "RunHours", "WorkTime", "WorkContent"} \cap Range(ls) |->
        CASE c = "Output" -> "ActualOutput" [] c = "RunHours" -> "OperatorHours"
          [] c = "WorkTime" -> "StdWork" [] c = "WorkContent" -> "Station"]

\* Lines 663-666: the renaming of the second file.
rename_mapping_2(ls) ==
    [c \in {"Output", "RunHours"} \cap Range(ls) |->
        IF c = "Output" THEN "ActualOutput" ELSE "OperatorHours"]

\* DataFrame.rename(columns=mapping, inplace=True) on the labels: every
\* label that is a key of the mapping is replaced, the others are kept.
rename_labels(ls, mapping) ==
    [i \in 1..Len(ls) |-> IF ls[i] \in DOMAIN mapping THEN mapping[ls[i]] ELSE ls[i]]

\* Lines 668-674: the renaming is done if the mapping is not empty.
normalize_1(ls) ==
    IF DOMAIN rename_mapping_1(ls) # {} THEN rename_labels(ls, rename_mapping_1(ls)) ELSE ls
normalize_2(ls) ==
    IF DOMAIN rename_mapping_2(ls) # {} THEN rename_labels(ls, rename_mapping_2(ls)) ELSE ls

\* Lines 644-676: the files are read and their columns renamed.  The rows
\* play no part in the renaming; the files here have a header only.
read_files ==
    /\ pc = "uploaded"
    /\ labels' = [file1 |-> normalize_1(labels.file1), file2 |-> normalize_2(labels.file2)]
    /\ df1' = [columns |-> Range(labels'.file1), rows |-> <<>>]
    /\ df2' = [columns |-> Range(labels'.file2), rows |-> <<>>]
    /\ pc' = "ready"
    /\ UNCHANGED <<merge_columns, merge_method, button, session_state, outputs>>

EmptySession ==
    [keys |-> {}, merged_df |-> EmptyFrame, df1_filtered |-> EmptyFrame,
     df2_filtered |-> EmptyFrame, merge_columns |-> {}, filtered_df |-> EmptyFrame]

\* Lines 757-760.  session_state['merged_df'] is the merged_df object
\* itself, so it shows the in-place changes made to merged_df afterwards.
store_merge(ss, merged, d1, d2, on) ==
    [ss EXCEPT !.keys = @ \cup {"merged_df", "df1_filtered", "df2_filtered", "merge_columns"},
               !.merged_df = merged, !.df1_filtered = d1, !.df2_filtered = d2,
               !.merge_columns = on]

\* Faulty variant: the filtered table stored without the completion flag.
store_filtered_unflagged(ss, filtered) ==
    [ss EXCEPT !.keys = @ \cup {"filtered_df"}, !.filtered_df = filtered]

\* Faulty variant: a filtered table already in the session state is kept.
store_filtered_first(ss, filtered) ==
    [ss EXCEPT !.keys = @ \cup {"filtered_df", "analysis_completed"},
               !.filtered_df = IF "filtered_df" \in ss.keys THEN @ ELSE filtered]

\* Lines 824-825, 845-846, 850-851.
store_filtered(ss, filtered) ==
    [ss EXCEPT !.keys = @ \cup {"filtered_df", "analysis_completed"},
               !.filtered_df = filtered]

\* Lines 923-932: the analysis reads the frame kept in the session state.
base_df(ss, filtered, merged) ==
    IF "filtered_df" \in ss.keys THEN ss.filtered_df
    ELSE IF "merged_df" \in ss.keys THEN ss.merged_df
    ELSE filtered

\* Faulty variant: the filter rate of line 914 computed without dividing
\* by the number of merged rows.
run_merge_unguarded(ss, f1, f2, on, how) ==
    LET d1 == clean_keys(f1, on)
        d2 == clean_keys(f2, on)
        m1 == rename_standard_ct(merge(d1, d2, on, how))
        m2 == add_actual_ct(m1)
        m3 == add_efficiency(m2)
    IN IF actual_ct_raises(m1)
       THEN [raised |-> "derive", d1 |-> d1, d2 |-> d2, merged |-> m1, filtered |-> EmptyFrame,
             notice |-> "none", ss |-> store_merge(ss, m1, d1, d2, on)]
       ELSE IF efficiency_raises(m2)
       THEN [raised |-> "derive", d1 |-> d1, d2 |-> d2, merged |-> m2, filtered |-> EmptyFrame,
             notice |-> "none", ss |-> store_merge(ss, m2, d1, d2, on)]
       ELSE [raised |-> "none",
             d1 |-> d1, d2 |-> d2, merged |-> m3, filtered |-> quality_filter(m3),
             notice |-> filter_notice(m3),
             ss |-> store_filtered(store_merge(ss, m3, d1, d2, on), quality_filter(m3))]

\* Lines 716-917 for given inputs: the frames of the run and the exception,
\* if any, that left the try block of line 744 (reported at line 1161):
\* "derive" is the TypeError of lines 771 and 774 on a text cell, "stats"
\* the ZeroDivisionError of line 914, which divides by len(merged_df).
run_merge(ss, f1, f2, on, how) ==
    LET d1 == clean_keys(f1, on)
        d2 == clean_keys(f2, on)
        m1 == rename_standard_ct(merge(d1, d2, on, how))
        m2 == add_actual_ct(m1)
        m3 == add_efficiency(m2)
    IN IF actual_ct_raises(m1)
       THEN [raised |-> "derive", d1 |-> d1, d2 |-> d2, merged |-> m1, filtered |-> EmptyFrame,
             notice |-> "none", ss |-> store_merge(ss, m1, d1, d2, on)]
       ELSE IF efficiency_raises(m2)
       THEN [raised |-> "derive", d1 |-> d1, d2 |-> d2, merged |-> m2, filtered |-> EmptyFrame,
             notice |-> "none", ss |-> store_merge(ss, m2, d1, d2, on)]
       ELSE [raised |-> IF len(m3) = 0 THEN "stats" ELSE "none",
             d1 |-> d1, d2 |-> d2, merged |-> m3, filtered |-> quality_filter(m3),
             notice |-> filter_notice(m3),
             ss |-> store_filtered(store_merge(ss, m3, d1, d2, on), quality_filter(m3))]

NoAnalysis ==
    /\ analysis_df' = EmptyFrame
    /\ station_metrics' = EmptyFrame
    /\ low_efficiency' = EmptyFrame
    /\ high_efficiency' = EmptyFrame
    /\ top_performers' = EmptyFrame
    /\ ct_abnormal' = EmptyFrame
    /\ html_report' = NoReport

\* Lines 939-1057 on base: the tables, then the report; an exception of
\* the report leaves the try block of line 919 (reported at line 1158).
Analyse(base) ==
    \E a \in {make_analysis_df(base)} :
       /\ analysis_df' = a
       /\ html_report' \in generate_html_report(a)
       /\ status' = IF html_report'.state = "rendered" THEN "ok" ELSE "analysis_error"
       /\ station_metrics' = compute_station_metrics(a)
       /\ low_efficiency' = compute_low_efficiency(a)
       /\ high_efficiency' = compute_high_efficiency(a)
       /\ top_performers' \in top_performers_of(a)
       /\ ct_abnormal' = compute_ct_abnormal(a, has_ct_cols(base))

\* Faulty variant: the join attempted whatever the selection.
has_keys_always(on) == TRUE

\* Line 709: at least one join key is selected.
has_keys(on) == Cardinality(on) >= 1

\* Faulty variant: the completion flag of an earlier run is not consulted.
run_requested_button_only(pressed, ss) == pressed

\* Line 743: the button is pressed, or an earlier run of the session
\* completed.
run_requested(pressed, ss) == pressed \/ "analysis_completed" \in ss.keys

\* The script from line 709 on, with both files uploaded.
main ==
    /\ pc = "ready"
    /\ has_keys(merge_columns)
    /\ run_requested(button, session_state)
    /\ \E r \in {run_merge(session_state, df1, df2, merge_columns, merge_method)} :
       LET base == base_df(r.ss, r.filtered, r.merged)
       IN /\ df1_filtered' = r.d1
          /\ df2_filtered' = r.d2
          /\ merged_df' = r.merged
          /\ filtered_df' = r.filtered
          /\ session_state' = r.ss
          /\ notice' = r.notice
          /\ IF r.raised # "none"
             THEN status' = r.raised \o "_error" /\ NoAnalysis
             ELSE IF can_analyse(base)
                  THEN Analyse(base)
                  ELSE status' = "analysis_skipped" /\ NoAnalysis
    /\ pc' = "done"
    /\ UNCHANGED inputs

\* Lines 1163-1164: no join key is selected; the script warns and ends.
no_keys ==
    /\ pc = "ready"
    /\ ~has_keys(merge_columns)
    /\ status' = "no_keys"
    /\ pc' = "done"
    /\ UNCHANGED <<inputs, session_state, notice, df1_filtered, df2_filtered, merged_df,
                   filtered_df, analysis_df, station_metrics, low_efficiency,
                   high_efficiency, top_performers, ct_abnormal, html_report>>

\* Lines 716-743 when the button is not pressed and no earlier run
\* completed: the keys are cleaned, nothing else happens.
idle ==
    /\ pc = "ready"
    /\ has_keys(merge_columns)
    /\ ~run_requested(button, session_state)
    /\ df1_filtered' = clean_keys(df1, merge_columns)
    /\ df2_filtered' = clean_keys(df2, merge_columns)
    /\ status' = "idle"
    /\ pc' = "done"
    /\ UNCHANGED <<inputs, session_state, notice, merged_df,
                   filtered_df, analysis_df, station_metrics, low_efficiency,
                   high_efficiency, top_performers, ct_abnormal, html_report>>

NoOutputs ==
    /\ status = "none" /\ notice = "none" /\ html_report = NoReport
    /\ df1_filtered = EmptyFrame /\ df2_filtered = EmptyFrame
    /\ merged_df = EmptyFrame /\ filtered_df = EmptyFrame
    /\ analysis_df = EmptyFrame /\ station_metrics = EmptyFrame
    /\ low_efficiency = EmptyFrame /\ high_efficiency = EmptyFrame
    /\ top_performers = EmptyFrame /\ ct_abnormal = EmptyFrame

\* A frame with the given columns whose rows, in order, have the cells vs[i]
\* (as read from a file: RangeIndex 0..n-1).
frame(cols, vs) ==
    [columns |-> cols, rows |-> [i \in 1..Len(vs) |-> [idx |-> i - 1, v |-> vs[i]]]]

\* The sequences over S of length at most n.
SeqUpTo(S, n) == UNION {[1..k -> S] : k \in 0..n}

JoinModes == {"inner", "left", "right", "outer"}

----------------------------------------------------------------------------
(* Join inputs: key cells vary, one payload column on each side *)

MaxJoinRows == 2

sA == Str(<<"A">>)
sApad == Str(<<"A", " ">>)
sB == Str(<<"B">>)
sL == Str(<<"L">>)
sM == Str(<<"M">>)
sBlank == Str(<<" ">>)
sEmpty == Str(<<>>)
sAmy == Str(<<"A", "m", "y">>)

\* The left file pads its part number "A", the right file does not.
JoinLeftPartNoCells == {sApad, sB}
JoinRightPartNoCells == {sA, sB}
JoinLineCells == {sL, sM}

left_row(p, l) ==
    [c \in {"PartNo", "Line", "StdWork"} |->
        CASE c = "PartNo" -> p [] c = "Line" -> l [] c = "StdWork" -> Num(60)]
right_row(p, l) ==
    [c \in {"PartNo", "Line", "Name"} |->
        CASE c = "PartNo" -> p [] c = "Line" -> l [] c = "Name" -> sAmy]

JoinLeftRows == {left_row(p, l) : p \in JoinLeftPartNoCells, l \in JoinLineCells}
JoinRightRows == {right_row(p, l) : p \in JoinRightPartNoCells, l \in JoinLineCells}

InitJoin ==
    /\ pc = "ready"
    /\ df1 \in {frame({"PartNo", "Line", "StdWork"}, vs) : vs \in SeqUpTo(JoinLeftRows, MaxJoinRows)}
    /\ df2 \in {frame({"PartNo", "Line", "Name"}, vs) : vs \in SeqUpTo(JoinRightRows, MaxJoinRows)}
    /\ merge_columns \in (SUBSET {"PartNo", "Line"}) \ {{}}
    /\ merge_method \in JoinModes
    /\ button = TRUE
    /\ session_state = EmptySession
    /\ NoOutputs
    /\ labels = labels_of(df1, df2)

SpecJoin == InitJoin /\ [][main]_vars

----------------------------------------------------------------------------
(* Key-cleaning inputs: missing, empty, blank and padded key cells *)

MaxKeyRows == 1

sLpad == Str(<<"L", " ">>)
KeyPartNoCells == {sA, sApad, NaN, sEmpty, sBlank}
KeyLineCells == {sL, sLpad, NaN, sEmpty, sBlank}

InitKeys ==
    /\ pc = "ready"
    /\ df1 \in {frame({"PartNo", "Line", "StdWork"}, vs) :
                  vs \in SeqUpTo({left_row(p, l) : p \in KeyPartNoCells, l \in KeyLineCells}, MaxKeyRows)}
    /\ df2 \in {frame({"PartNo", "Line", "Name"}, vs) :
                  vs \in SeqUpTo({right_row(p, l) : p \in KeyPartNoCells, l \in KeyLineCells}, MaxKeyRows)}
    /\ merge_columns \in (SUBSET {"PartNo", "Line"}) \ {{}}
    /\ merge_method \in JoinModes
    /\ button = TRUE
    /\ session_state = EmptySession
    /\ NoOutputs
    /\ labels = labels_of(df1, df2)

SpecKeys == InitKeys /\ [][main]_vars

----------------------------------------------------------------------------
(* Filter inputs: one row over every combination of present columns and   *)
(* cells, followed by rows that pass or fail every predicate.  The rows   *)
(* are joined one to one on a unique part number.                         *)

MaxFillers == 1

sMFGR == Str(<<"M", "F", "G", "R">>)
sMFG_R == Str(<<"M", "F", "G", "_", "R">>)
sText == Str(<<"x">>)

FilterLeftColumns == {"Station", "StdWork"}
FilterRightColumns == {"Name", "OperatorHours", "TheoreticalOutput", "ActualOutput"}

StationCells == {sA, sBlank, NaN}
StdWorkCells == {Num(100), NaN}
NameCells == {sAmy, sMFGR, sMFG_R, NaN}
\* The last one is an hours cell read as infinity (the text inf in a numeric
\* column is read as the float inf).
HoursCells == {NaN, Rat(1, 50), Rat(3, 100), PosInf}
TheoreticalCells == {NaN, Num(0), Num(3), Num(10)}
OutputCells == {NaN, Num(0), Num(-1), Num(2), Num(15), Num(16), sText}

\* A row that passes every predicate, and one that fails every predicate.
good_cell(c) ==
    CASE c = "Station" -> sA [] c = "StdWork" -> Num(100) [] c = "Name" -> sAmy
      [] c = "OperatorHours" -> Num(1) [] c = "TheoreticalOutput" -> Num(10)
      [] c = "ActualOutput" -> Num(10)
bad_cell(c) ==
    CASE c = "Station" -> NaN [] c = "StdWork" -> NaN [] c = "Name" -> sMFGR
      [] c = "OperatorHours" -> Num(0) [] c = "TheoreticalOutput" -> Num(0)
      [] c = "ActualOutput" -> Num(-1)

\* Row k of a file with columns cols: the unique part number and the cells.
keyed_row(cols, k, cell(_)) ==
    [c \in cols \cup {"PartNo"} |-> IF c = "PartNo" THEN Str(NatStr(k)) ELSE cell(c)]

\* The file with columns cols whose first row has the cells of probe and
\* whose next rows are good or bad as fillers says.
filter_file(cols, probe, fillers) ==
    frame(cols \cup {"PartNo"},
          [k \in 1..(1 + Len(fillers)) |->
             IF k = 1 THEN keyed_row(cols, k, LAMBDA c : probe[c])
             ELSE IF fillers[k - 1] = "good" THEN keyed_row(cols, k, good_cell)
             ELSE keyed_row(cols, k, bad_cell)])

InitFilter ==
    /\ pc = "ready"
    /\ \E lc \in SUBSET FilterLeftColumns, rc \in SUBSET FilterRightColumns :
         \E st \in (IF "Station" \in lc THEN StationCells ELSE {NaN}),
            sw \in (IF "StdWork" \in lc THEN StdWorkCells ELSE {NaN}),
            nm \in (IF "Name" \in rc THEN NameCells ELSE {NaN}),
            h \in (IF "OperatorHours" \in rc THEN HoursCells ELSE {NaN}),
            th \in (IF "TheoreticalOutput" \in rc THEN TheoreticalCells ELSE {NaN}),
            o \in (IF "ActualOutput" \in rc THEN OutputCells ELSE {NaN}),
            fillers \in SeqUpTo({"good", "bad"}, MaxFillers) :
           LET probe == [c \in FilterLeftColumns \cup FilterRightColumns |->
                           CASE c = "Station" -> st [] c = "StdWork" -> sw [] c = "Name" -> nm
                             [] c = "OperatorHours" -> h [] c = "TheoreticalOutput" -> th
                             [] c = "ActualOutput" -> o]
           IN /\ df1 = filter_file(lc, probe, fillers)
              /\ df2 = filter_file(rc, probe, fillers)
    /\ merge_columns = {"PartNo"}
    /\ merge_method = "inner"
    /\ button = TRUE
    /\ session_state = EmptySession
    /\ NoOutputs
    /\ labels = labels_of(df1, df2)

SpecFilter == InitFilter /\ [][main]_vars

----------------------------------------------------------------------------
(* Analysis inputs: rows that pass the filter, at two stations, with the  *)
(* efficiencies 75, 80, 105 and 110 percent                               *)

MaxAnalysisRows == 3

sBob == Str(<<"B", "o", "b">>)
\* The operators at their stations: two at station A, one of them also at
\* station B.
AnalysisOperators == {<<sA, sAmy>>, <<sA, sBob>>, <<sB, sAmy>>}

\* Outputs against a theoretical output of 20: efficiencies of 75, 80, 105
\* and 110 percent, around the two thresholds.
AnalysisOutputs == {Num(15), Num(16), Num(21), Num(22)}

\* An output of 200 percent, which the quality filter drops.
OutOfRangeOutput == Num(40)

analysis_cell(c, st, nm, o) ==
    CASE c = "Station" -> st [] c = "StdWork" -> Num(90) [] c = "Name" -> nm
      [] c = "OperatorHours" -> Rat(1, 2) [] c = "TheoreticalOutput" -> Num(20)
      [] c = "ActualOutput" -> o

AnalysisRows ==
    {[c \in FilterLeftColumns \cup FilterRightColumns |-> analysis_cell(c, op[1], op[2], o)] :
       op \in AnalysisOperators, o \in AnalysisOutputs}
    \cup {[c \in FilterLeftColumns \cup FilterRightColumns |-> analysis_cell(c, sA, sAmy, OutOfRangeOutput)]}

analysis_file(cols, vs) ==
    frame(cols \cup {"PartNo"},
          [k \in 1..Len(vs) |-> keyed_row(cols, k, LAMBDA c : vs[k][c])])

InitAnalysis ==
    /\ pc = "ready"
    /\ \E vs \in SeqUpTo(AnalysisRows, MaxAnalysisRows) :
         /\ df1 = analysis_file(FilterLeftColumns, vs)
         /\ df2 = analysis_file(FilterRightColumns, vs)
    /\ merge_columns = {"PartNo"}
    /\ merge_method = "inner"
    /\ button = TRUE
    /\ session_state = EmptySession
    /\ NoOutputs
    /\ labels = labels_of(df1, df2)

SpecAnalysis == InitAnalysis /\ [][main]_vars

----------------------------------------------------------------------------
(* Cycle-time inputs: the standard work and the presence of the CT columns vary *)

MaxCTRows == 2

\* Standard times against actual cycle times of 120 and 90 seconds:
\* deviation rates of 33.3, 0, 20, -10, -20 and -40 percent, a zero
\* standard and a standard that is no number.
CTStdWorkCells == {Num(0), Num(90), Num(100), Num(150), sText}
CTOutputs == {Num(15), Num(20)}

ct_cell(c, sw, o) ==
    CASE c = "Station" -> sA [] c = "StdWork" -> sw [] c = "Name" -> sAmy
      [] c = "OperatorHours" -> Rat(1, 2) [] c = "TheoreticalOutput" -> Num(20)
      [] c = "ActualOutput" -> o

CTRows ==
    {[c \in FilterLeftColumns \cup FilterRightColumns |-> ct_cell(c, sw, o)] :
       sw \in CTStdWorkCells, o \in CTOutputs}

InitCT ==
    /\ pc = "ready"
    /\ \E vs \in SeqUpTo(CTRows, MaxCTRows),
          lc \in {{"Station"}, {"Station", "StdWork"}},
          rc \in {FilterRightColumns, FilterRightColumns \ {"OperatorHours"}} :
         /\ df1 = analysis_file(lc, vs)
         /\ df2 = analysis_file(rc, vs)
    /\ merge_columns = {"PartNo"}
    /\ merge_method = "inner"
    /\ button = TRUE
    /\ session_state = EmptySession
    /\ NoOutputs
    /\ labels = labels_of(df1, df2)

SpecCT == InitCT /\ [][main]_vars

----------------------------------------------------------------------------
(* Uploads: the labels of the two files before the renaming *)

MaxLabels == 3

\* Labels of a first and of a second file: the sources and targets of the
\* file's own pairs, a source of the other file's pairs, and a key.
RawLabels1 == {"WorkTime", "StdWork", "WorkContent", "Output", "PartNo"}
RawLabels2 == {"Output", "ActualOutput", "RunHours", "WorkTime", "PartNo"}

\* read_excel gives every column its own label.
Headers(S) == {ls \in SeqUpTo(S, MaxLabels) : \A i, j \in 1..Len(ls) : ls[i] = ls[j] => i = j}

InitUpload ==
    /\ pc = "uploaded"
    /\ labels \in [file1 : Headers(RawLabels1), file2 : Headers(RawLabels2)]
    /\ df1 = EmptyFrame /\ df2 = EmptyFrame
    /\ merge_columns = {}
    /\ merge_method = "inner"
    /\ button \in BOOLEAN
    /\ session_state = EmptySession
    /\ NoOutputs

NextUpload == read_files \/ no_keys

SpecUpload == InitUpload /\ [][NextUpload]_vars

----------------------------------------------------------------------------
(* A session: the script runs again at every interaction of the user *)

MaxSessionRows == 1

\* Outputs of 75 percent (kept), 200 percent (dropped) and a text cell (on
\* which the derivation raises).
SessionOutputs == {Num(15), Num(40), sText}

SessionRows ==
    {[c \in FilterLeftColumns \cup FilterRightColumns |-> ct_cell(c, Num(90), o)] :
       o \in SessionOutputs}

\* The first file has the same station and standard work on every row,
\* and as many rows as a file may have.
SessionLeftRows ==
    {[c \in FilterLeftColumns \cup FilterRightColumns |-> ct_cell(c, Num(90), Num(15))]}
SessionLeftFiles ==
    {vs \in SeqUpTo(SessionLeftRows, MaxSessionRows) : Len(vs) = MaxSessionRows}

\* The part numbers of the second file start at 1, as those of the first,
\* or after the last one of the first, so that no row finds a partner.
SessionKeyStarts == {1, MaxSessionRows + 1}

session_file(cols, vs, first) ==
    frame(cols \cup {"PartNo"},
          [k \in 1..Len(vs) |-> keyed_row(cols, first + k - 1, LAMBDA c : vs[k][c])])

\* The widgets of one interaction: the uploaded files, the key selection,
\* the join mode and the button.
SessionInputs ==
    /\ \E vs1 \in SessionLeftFiles,
          vs2 \in SeqUpTo(SessionRows, MaxSessionRows),
          first \in SessionKeyStarts :
         /\ df1' = analysis_file(FilterLeftColumns, vs1)
         /\ df2' = session_file(FilterRightColumns, vs2, first)
    /\ labels' = labels_of(df1', df2')
    /\ merge_columns' \in {{}, {"PartNo"}}
    /\ merge_method' \in {"inner", "left"}
    /\ button' \in BOOLEAN

\* The next interaction: the script starts again from line 628 with new
\* widget values and fresh local variables; st.session_state is kept.
rerun ==
    /\ pc = "done"
    /\ pc' = "ready"
    /\ SessionInputs
    /\ status' = "none" /\ notice' = "none" /\ html_report' = NoReport
    /\ df1_filtered' = EmptyFrame /\ df2_filtered' = EmptyFrame
    /\ merged_df' = EmptyFrame /\ filtered_df' = EmptyFrame
    /\ analysis_df' = EmptyFrame /\ station_metrics' = EmptyFrame
    /\ low_efficiency' = EmptyFrame /\ high_efficiency' = EmptyFrame
    /\ top_performers' = EmptyFrame /\ ct_abnormal' = EmptyFrame
    /\ UNCHANGED session_state

InitSession ==
    /\ pc = "ready"
    /\ \E vs1 \in SessionLeftFiles,
          vs2 \in SeqUpTo(SessionRows, MaxSessionRows),
          first \in SessionKeyStarts :
         /\ df1 = analysis_file(FilterLeftColumns, vs1)
         /\ df2 = session_file(FilterRightColumns, vs2, first)
    /\ merge_columns \in {{}, {"PartNo"}}
    /\ merge_method \in {"inner", "left"}
    /\ button \in BOOLEAN
    /\ session_state = EmptySession
    /\ NoOutputs
    /\ labels = labels_of(df1, df2)

NextSession == main \/ no_keys \/ idle \/ rerun

SpecSession == InitSession /\ [][NextSession]_vars

----------------------------------------------------------------------------
(* Claims *)

\* The script has run and reached the quality filter (lines 777-852).
filter_ran == pc = "done" /\ status \in {"ok", "analysis_skipped", "analysis_error", "stats_error"}

\* The row of frame df with index label k.
row_at(df, k) == df.rows[CHOOSE i \in 1..Len(df.rows) : df.rows[i].idx = k]

\* A key cell that is missing, or empty once trimmed.
KeyMissing(x) == isna(x) \/ (IsStr(x) /\ IsBlank(x.s))

\* Every row of the join input `cleaned` had, in the uploaded frame `raw`,
\* a present key cell in every selected column, and its key cells are now
\* trimmed text.
KeysClean(raw, cleaned) ==
    \A i \in 1..Len(cleaned.rows) : \A c \in merge_columns :
        /\ ~KeyMissing(row_at(raw, cleaned.rows[i].idx).v[c])
        /\ IsStr(cleaned.rows[i].v[c])
        /\ cleaned.rows[i].v[c].s = rstrip(lstrip(cleaned.rows[i].v[c].s))

\* C1: for every join mode and every selected key column, key cells are
\* compared as trimmed text, and a row whose key cell is missing or empty
\* after trimming in any selected column is not in the join input, so it is
\* in no merged row.
C1_KeysTrimmedMissingExcluded ==
    pc = "done" =>
        /\ KeysClean(df1, df1_filtered)
        /\ KeysClean(df2, df2_filtered)
        /\ \A k \in 1..Len(merged_df.rows) : \A c \in merge_columns :
               /\ ~KeyMissing(merged_df.rows[k].v[c])
               /\ merged_df.rows[k].v[c] # Str(<<"n", "a", "n">>)

\* The pairs of join-input rows that agree on every selected key column.
AgreeingPairs ==
    {p \in (1..Len(df1_filtered.rows)) \X (1..Len(df2_filtered.rows)) :
        \A c \in merge_columns :
            df1_filtered.rows[p[1]].v[c] = df2_filtered.rows[p[2]].v[c]}

\* The composite keys (as functions on the selected columns) of a frame,
\* and the number of rows of the frame in key group g.
KeyGroups(df) == {[c \in merge_columns |-> df.rows[i].v[c]] : i \in 1..Len(df.rows)}
GroupCount(df, g) ==
    Cardinality({i \in 1..Len(df.rows) : \A c \in merge_columns : df.rows[i].v[c] = g[c]})

RECURSIVE SumOfProducts(_)
SumOfProducts(G) ==
    IF G = {} THEN 0
    ELSE LET g == CHOOSE x \in G : TRUE
         IN GroupCount(df1_filtered, g) * GroupCount(df2_filtered, g) + SumOfProducts(G \ {g})

\* C2: for an inner join on a composite key there is one merged row per
\* pair of input rows that agree on all selected key columns at once: each
\* key group g has countL_g x countR_g merged rows, the row count is the
\* sum of these products and at most |L| x |R|.
C2_InnerJoinFanOut ==
    (pc = "done" /\ merge_method = "inner") =>
        /\ Len(merged_df.rows) = Cardinality(AgreeingPairs)
        /\ Len(merged_df.rows) = SumOfProducts(KeyGroups(df1_filtered) \cup KeyGroups(df2_filtered))
        /\ Len(merged_df.rows) <= Len(df1_filtered.rows) * Len(df2_filtered.rows)
        /\ \A g \in KeyGroups(merged_df) \cup KeyGroups(df1_filtered) \cup KeyGroups(df2_filtered) :
               GroupCount(merged_df, g) = GroupCount(df1_filtered, g) * GroupCount(df2_filtered, g)

\* An inner join on both key columns in which one key group has two rows on
\* each side (four merged rows) while other rows share only one key column.
C2_Witness ==
    /\ pc = "done" /\ merge_method = "inner" /\ merge_columns = {"PartNo", "Line"}
    /\ Len(merged_df.rows) = 4
    /\ Len(df1_filtered.rows) = 2 /\ Len(df2_filtered.rows) = 2

\* C3: ActualCT is OperatorHours * 3600 / ActualOutput when both are
\* present and the output is not zero, and is missing (never infinite)
\* when the output is zero or an input is missing.
C3_ActualCTMissingWhenUndefined ==
    (pc = "done" /\ {"ActualCT", "OperatorHours", "ActualOutput"} \subseteq merged_df.columns) =>
        \A k \in 1..Len(merged_df.rows) :
            LET h == merged_df.rows[k].v["OperatorHours"]
                o == merged_df.rows[k].v["ActualOutput"]
                ct == merged_df.rows[k].v["ActualCT"]
            IN IF IsNum(h) /\ IsNum(o) /\ o.n # 0
               THEN IsNum(ct) /\ ct.n * o.n * h.d = h.n * 3600 * o.d * ct.d
               ELSE isna(ct)


\* The index labels of the rows of filtered_df.
KeptLabels == Range(index(filtered_df))

\* A cell that is present: not missing and not blank text.
Present(x) == notna(x) /\ ~(IsStr(x) /\ IsBlank(x.s))

\* The number a cell reads as, with a missing or unreadable cell as 0.
MissingAsZero(x) == IF isna(to_numeric(x)) THEN Num(0) ELSE to_numeric(x)

\* x >= n/d for a float x that is not NaN.
AtLeast(x, n, d) == IF IsInf(x) THEN x.n > 0 ELSE x.n * d >= n * x.d
AtMost(x, n, d) == IF IsInf(x) THEN x.n < 0 ELSE x.n * d <= n * x.d

\* The percent a merged row's efficiency text shows.
ShownPercent(v) == to_numeric(Str(SelectSeq(v["Efficiency"].s, LAMBDA ch : ch # "%")))

\* The predicates of the quality table other than the efficiency range,
\* each active only if its column is among cols.
KeepOther(v, cols) ==
    /\ "OperatorHours" \in cols => AtLeast(MissingAsZero(v["OperatorHours"]), 3, 100)
    /\ "ActualOutput" \in cols => AtLeast(MissingAsZero(v["ActualOutput"]), 0, 1)
    /\ "ActualCT" \in cols => AtLeast(MissingAsZero(v["ActualCT"]), 0, 1)
    /\ "Efficiency" \in cols =>
          v["Efficiency"].s \notin {<<"0", ".", "0", "%">>, <<"i", "n", "f", "%">>, <<"n", "a", "n", "%">>}
    /\ "Name" \in cols => v["Name"] \notin {Str(<<"M", "F", "G", "R">>), Str(<<"M", "F", "G", "_", "R">>)}
    /\ "Station" \in cols => Present(v["Station"])
    /\ "StandardCT" \in cols => Present(v["StandardCT"])
    /\ "Name" \in cols => Present(v["Name"])

\* The efficiency-range predicate: the percent is a number in [20, 150].
KeepRange(v, cols) ==
    "Efficiency" \in cols =>
        /\ IsNum(ShownPercent(v))
        /\ AtLeast(ShownPercent(v), 20, 1)
        /\ AtMost(ShownPercent(v), 150, 1)

\* C4: the filter keeps a row if and only if the row satisfies every
\* active predicate of the quality table; a predicate whose column is
\* absent excludes no row.
C4_KeptIffAllActivePredicates ==
    filter_ran =>
        \A k \in 1..Len(merged_df.rows) :
            (merged_df.rows[k].idx \in KeptLabels)
              <=> (KeepOther(merged_df.rows[k].v, merged_df.columns)
                   /\ KeepRange(merged_df.rows[k].v, merged_df.columns))

\* All nine predicates are active, one row is kept and one is dropped.
C4_Witness ==
    /\ filter_ran
    /\ important_columns \subseteq merged_df.columns
    /\ Len(filtered_df.rows) = 1 /\ Len(merged_df.rows) = 2

\* The columns of the filtered table that the filter stage neither adds
\* nor converts.
UntouchedColumns == {"OperatorHours", "TheoreticalOutput", "Efficiency"}

\* C5: the rows of filter(T) are rows of T (the same index label, the same
\* row, in the order of T, none twice), |filter(T)| <= |T|, and filtering
\* the filtered table again gives the filtered table.
C5_FilterSubsetIdempotent ==
    filter_ran =>
        /\ \A i \in 1..Len(filtered_df.rows) :
              /\ \E k \in 1..Len(merged_df.rows) : merged_df.rows[k].idx = filtered_df.rows[i].idx
              /\ \A c \in UntouchedColumns \cap filtered_df.columns :
                    filtered_df.rows[i].v[c] = row_at(merged_df, filtered_df.rows[i].idx).v[c]
        /\ \A i, j \in 1..Len(filtered_df.rows) :
              i < j => filtered_df.rows[i].idx < filtered_df.rows[j].idx
        /\ Len(filtered_df.rows) <= Len(merged_df.rows)
        /\ quality_filter(filtered_df) = filtered_df

\* A run in which the first row was dropped and the second kept.
C5_Witness ==
    /\ filter_ran
    /\ filter_conditions(filtered_df) # <<>>
    /\ Len(merged_df.rows) = 2
    /\ index(filtered_df) = <<1>>

\* C6 as stated: every column of the filtered table is a column of the
\* merged table, and every kept row has in each column the cell of the
\* merged row it came from.
C6_FilterOnlyRemovesRows ==
    filter_ran =>
        /\ filtered_df.columns \subseteq merged_df.columns
        /\ \A i \in 1..Len(filtered_df.rows) :
              \A c \in filtered_df.columns \cap merged_df.columns :
                  filtered_df.rows[i].v[c] = row_at(merged_df, filtered_df.rows[i].idx).v[c]

\* C6 amended: the filter stage adds exactly the column EfficiencyValue,
\* the number shown by the efficiency text, when the Efficiency column
\* exists, and no other column; in every other column a kept row has the
\* cell of its merged row, except that a text cell of ActualOutput is
\* replaced by the number it reads as (missing if it reads as none).
C6_FilterKeepsCellsAddsEfficiencyValue ==
    filter_ran =>
        /\ filtered_df.columns \ merged_df.columns
             = (IF "Efficiency" \in merged_df.columns THEN {"EfficiencyValue"} ELSE {})
        /\ \A i \in 1..Len(filtered_df.rows) :
              LET f == filtered_df.rows[i].v
                  m == row_at(merged_df, filtered_df.rows[i].idx).v
              IN /\ \A c \in filtered_df.columns \cap merged_df.columns :
                        IF c = "ActualOutput" /\ IsStr(m[c])
                        THEN f[c] = to_numeric(m[c])
                        ELSE f[c] = m[c]
                 /\ "EfficiencyValue" \in filtered_df.columns =>
                        f["EfficiencyValue"] = ShownPercent(m)

\* A kept row with the added column, beside a dropped row.
C6_Witness ==
    /\ filter_ran
    /\ "EfficiencyValue" \in filtered_df.columns
    /\ Len(filtered_df.rows) = 1 /\ Len(merged_df.rows) = 2

analysed == pc = "done" /\ status = "ok"

\* The result table rs holds only rows of the table df, each with the
\* cells it has in df, in the order of df and none twice.
RowsOf(rs, df) ==
    /\ \A i \in 1..Len(rs.rows) :
          \E k \in 1..Len(df.rows) :
              df.rows[k].idx = rs.rows[i].idx /\ \A c \in rs.columns : df.rows[k].v[c] = rs.rows[i].v[c]
    /\ \A i, j \in 1..Len(rs.rows) : i < j => rs.rows[i].idx < rs.rows[j].idx

\* The efficiency ratio of a row of the filtered table.
RatioOf(v) == FDiv(v["EfficiencyValue"], Num(100))

\* C8: LowEfficiency (ratio < 0.8) and HighEfficiency (ratio > 1.05) have
\* no row in common, and LowEfficiency, HighEfficiency and CTAbnormal hold
\* only rows of the analysed (filtered) table, each at most once.
C8_AnomalySetsDisjointAndFromFiltered ==
    analysed =>
        /\ Range(index(low_efficiency)) \cap Range(index(high_efficiency)) = {}
        /\ \A k \in 1..Len(filtered_df.rows) :
              /\ filtered_df.rows[k].idx \in Range(index(low_efficiency))
                    <=> (IsNum(RatioOf(filtered_df.rows[k].v)) /\ ~AtLeast(RatioOf(filtered_df.rows[k].v), 4, 5))
              /\ filtered_df.rows[k].idx \in Range(index(high_efficiency))
                    <=> (IsNum(RatioOf(filtered_df.rows[k].v)) /\ ~AtMost(RatioOf(filtered_df.rows[k].v), 21, 20))
        /\ \A rs \in {low_efficiency, high_efficiency, ct_abnormal} :
              /\ RowsOf(rs, analysis_df)
              /\ Range(index(rs)) \subseteq KeptLabels

\* A run with a low, a high and a CT-abnormal row.
C8_Witness ==
    /\ analysed
    /\ low_efficiency.rows # <<>>
    /\ high_efficiency.rows # <<>>
    /\ ct_abnormal.rows # <<>>
    /\ Len(filtered_df.rows) < Len(merged_df.rows)

\* The positions of the filtered rows at one station, and the sum of their
\* efficiency ratios.
StationRows(station) == {k \in 1..Len(filtered_df.rows) : filtered_df.rows[k].v["Station"] = station}

RECURSIVE SumOfRatios(_)
SumOfRatios(P) ==
    IF P = {} THEN Num(0)
    ELSE LET k == CHOOSE x \in P : TRUE
         IN FAdd(RatioOf(filtered_df.rows[k].v), SumOfRatios(P \ {k}))

\* The tables with two rows of df exchanged.  Every order of the rows is
\* reached by such exchanges, and the input family holds every order.
Reorderings(df) ==
    {[columns |-> df.columns,
      rows |-> [i \in 1..Len(df.rows) |->
                  IF i = a THEN df.rows[b] ELSE IF i = b THEN df.rows[a] ELSE df.rows[i]]] :
        a, b \in 1..Len(df.rows)}

\* C9: the station metric table has exactly one row per distinct Station
\* of the filtered table; the row's mean efficiency is 100 times the mean
\* of the efficiency ratio over the filtered rows of that station, its
\* HeadCount is the number of those rows; the order of the rows does not
\* change the table.
C9_StationMetrics ==
    analysed =>
        /\ {station_metrics.rows[i].v["Station"] : i \in 1..Len(station_metrics.rows)}
             = {filtered_df.rows[k].v["Station"] : k \in 1..Len(filtered_df.rows)}
        /\ \A i, j \in 1..Len(station_metrics.rows) :
              station_metrics.rows[i].v["Station"] = station_metrics.rows[j].v["Station"] => i = j
        /\ \A i \in 1..Len(station_metrics.rows) :
              LET m == station_metrics.rows[i].v
                  P == StationRows(m["Station"])
              IN /\ m["HeadCount"] = Num(Cardinality(P))
                 /\ FMul(m["Efficiency"], Num(Cardinality(P))) = FMul(Num(100), SumOfRatios(P))
        /\ \A other \in Reorderings(analysis_df) : compute_station_metrics(other) = station_metrics

\* One station with two rows of the same operator, beside another station.
C9_Witness ==
    /\ analysed
    /\ Len(station_metrics.rows) = 2
    /\ \E k, l \in 1..Len(filtered_df.rows) :
          /\ k # l
          /\ filtered_df.rows[k].v["Station"] = filtered_df.rows[l].v["Station"]
          /\ filtered_df.rows[k].v["Name"] = filtered_df.rows[l].v["Name"]
          /\ filtered_df.rows[k].v["EfficiencyValue"] # filtered_df.rows[l].v["EfficiencyValue"]

\* C10: Top Performers is the first min(10, |filtered|) rows of the
\* filtered table in non-increasing efficiency, rows of equal efficiency in
\* their original order, and the rows left out follow the chosen ones in
\* that order.
C10_TopPerformersStableSort ==
    analysed =>
        /\ Len(top_performers.rows)
             = (IF Len(filtered_df.rows) < 10 THEN Len(filtered_df.rows) ELSE 10)
        /\ \A i \in 1..Len(top_performers.rows) :
              \E k \in 1..Len(analysis_df.rows) : analysis_df.rows[k] = top_performers.rows[i]
        /\ \A i, j \in 1..Len(top_performers.rows) :
              i < j =>
                 \/ FGt(top_performers.rows[i].v["Efficiency"], top_performers.rows[j].v["Efficiency"])
                 \/ /\ top_performers.rows[i].v["Efficiency"] = top_performers.rows[j].v["Efficiency"]
                    /\ top_performers.rows[i].idx < top_performers.rows[j].idx
        /\ \A k \in 1..Len(analysis_df.rows) :
              analysis_df.rows[k].idx \notin Range(index(top_performers)) =>
                 \A i \in 1..Len(top_performers.rows) :
                    \/ FGt(top_performers.rows[i].v["Efficiency"], analysis_df.rows[k].v["Efficiency"])
                    \/ /\ top_performers.rows[i].v["Efficiency"] = analysis_df.rows[k].v["Efficiency"]
                       /\ top_performers.rows[i].idx < analysis_df.rows[k].idx


\* The analysis ran on its input: it computed its tables, whether or not
\* the report was rendered afterwards.
analysis_ran == pc = "done" /\ status \in {"ok", "analysis_error"}

\* The number a cell of the analytics input reads as.
Reading(x) == to_numeric(x)

\* C11: the CT deviation rate of an analysed row is
\* (ActualCT - StandardCT) / StandardCT x 100 when StandardCT is a number
\* other than zero, and missing when StandardCT is zero or missing; the
\* row is in CTAbnormal exactly when the rate is defined and its absolute
\* value exceeds 20.
C11_CTDeviationRate ==
    (analysis_ran /\ {"StandardCT", "ActualCT"} \subseteq filtered_df.columns) =>
        \A k \in 1..Len(analysis_df.rows) :
            LET v == analysis_df.rows[k].v
                std == Reading(filtered_df.rows[k].v["StandardCT"])
                act == Reading(filtered_df.rows[k].v["ActualCT"])
                rate == v["CTDiffRate"]
            IN /\ IF IsNum(std) /\ std # Num(0) /\ IsNum(act)
                  THEN rate = Rat((act.n * std.d - std.n * act.d) * 100 * std.d, act.d * std.d * std.n)
                  ELSE isna(rate)
               /\ analysis_df.rows[k].idx \in Range(index(ct_abnormal))
                     <=> (IsNum(rate) /\ (~AtMost(rate, 20, 1) \/ ~AtLeast(rate, -20, 1)))

\* The six columns of the CT-abnormal table.
CTAbnormalShape == {"Station", "Name", "StandardCT", "ActualCT", "CTDiff", "CTDiffRate"}

\* C12: the CT deviation columns and a non-empty CTAbnormal are produced
\* only if the analytics input has both StandardCT and ActualCT; otherwise
\* CTAbnormal is an empty table with exactly the six documented columns,
\* and the station metrics, the efficiency anomaly sets, the top
\* performers and the report are produced all the same.
C12_CTOutputsNeedBothColumns ==
    analysis_ran =>
        IF {"StandardCT", "ActualCT"} \subseteq filtered_df.columns
        THEN {"CTDiff", "CTDiffRate"} \subseteq analysis_df.columns
        ELSE /\ {"CTDiff", "CTDiffRate"} \cap analysis_df.columns = {}
             /\ ct_abnormal = [columns |-> CTAbnormalShape, rows |-> <<>>]
             /\ Len(filtered_df.rows) > 0 =>
                   /\ status = "ok" /\ html_report.state = "rendered"
                   /\ Len(station_metrics.rows) > 0
                   /\ Len(top_performers.rows) = Len(filtered_df.rows)
                   /\ Range(index(low_efficiency)) \cup Range(index(high_efficiency))
                        = {filtered_df.rows[k].idx :
                             k \in {j \in 1..Len(filtered_df.rows) :
                                      filtered_df.rows[j].v["EfficiencyValue"] = Num(75)}}

\* An analysis without the StandardCT column, with a low-efficiency row and
\* a rendered report.
C12_Witness ==
    /\ analysis_ran
    /\ "StandardCT" \notin filtered_df.columns
    /\ "ActualCT" \in filtered_df.columns
    /\ Len(low_efficiency.rows) > 0
    /\ html_report.state = "rendered"


\* No output of the analytics stage exists.
NoAnalyticsOutput ==
    /\ analysis_df = EmptyFrame /\ station_metrics = EmptyFrame
    /\ low_efficiency = EmptyFrame /\ high_efficiency = EmptyFrame
    /\ top_performers = EmptyFrame /\ ct_abnormal = EmptyFrame
    /\ html_report = NoReport

\* C13: when the filtered table is empty (no station), the report assembly
\* does not fail: the report is produced, without a best station, from the
\* empty tables, and the run does not end in an error.
C13_EmptyFilteredTableReported ==
    (pc = "done" /\ {"Station", "Name", "EfficiencyValue"} \subseteq filtered_df.columns
       /\ Len(merged_df.rows) > 0 /\ Len(filtered_df.rows) = 0) =>
        /\ status = "ok"
        /\ html_report.state = "rendered"
        /\ isna(html_report.best_station)

\* The analytics input has Station, Name and an efficiency column.
SufficientSchema(df) ==
    /\ {"Station", "Name"} \subseteq df.columns
    /\ {"EfficiencyValue", "Efficiency"} \cap df.columns # {}

\* C14: if the analytics input lacks Station, lacks Name, or has no
\* efficiency column, the analytics stage produces none of its outputs and
\* says so (and only then), while the merged and the filtered table of the
\* run are still there.
C14_InsufficientSchemaSkipsAnalysis ==
    filter_ran /\ status # "stats_error" =>
        /\ status = "analysis_skipped" <=> ~SufficientSchema(filtered_df)
        /\ ~SufficientSchema(filtered_df) =>
              /\ NoAnalyticsOutput
              /\ notice # "none"
              /\ Len(merged_df.rows) > 0
              /\ session_state.merged_df = merged_df
              /\ session_state.filtered_df = filtered_df
              /\ filtered_df = quality_filter(merged_df)

\* A run whose filtered table has rows and a Station but no Name.
C14_Witness ==
    /\ pc = "done" /\ status = "analysis_skipped"
    /\ "Station" \in filtered_df.columns
    /\ "EfficiencyValue" \in filtered_df.columns
    /\ "Name" \notin filtered_df.columns
    /\ Len(filtered_df.rows) > 0


\* C15: when no join key is selected, no join is attempted in that
\* interaction: no merged, filtered or analytics table is computed and the
\* session state is left as it was, whether or not the button is pressed
\* and whether or not an earlier run of the session completed.
C15_NoKeysNoJoin ==
    [][(pc = "ready" /\ merge_columns = {}) =>
          /\ session_state' = session_state
          /\ status' = "no_keys"
          /\ merged_df' = EmptyFrame /\ filtered_df' = EmptyFrame
          /\ df1_filtered' = EmptyFrame /\ df2_filtered' = EmptyFrame
          /\ analysis_df' = EmptyFrame /\ station_metrics' = EmptyFrame
          /\ low_efficiency' = EmptyFrame /\ high_efficiency' = EmptyFrame
          /\ top_performers' = EmptyFrame /\ ct_abnormal' = EmptyFrame
          /\ html_report' = NoReport]_vars

\* An interaction without keys, the button pressed, after a completed run.
C15_Witness ==
    /\ pc = "done" /\ status = "no_keys"
    /\ button
    /\ "analysis_completed" \in session_state.keys
    /\ Len(session_state.merged_df.rows) > 0

\* C16 as stated: nothing of a run remains in the session state for a
\* later interaction, and an interaction performs the join only on its own
\* inputs: never without the button being pressed.
C16_NoEntityPersists ==
    /\ session_state = EmptySession
    /\ (pc = "done" /\ ~button) => status \in {"idle", "no_keys"}

\* C16 amended: a run that merged leaves its merged table, its cleaned
\* tables and its key selection in the session state; unless its derivation
\* raised, it also leaves its filtered table and the completion flag.  An
\* interaction with keys selected performs the join if the button is
\* pressed or the flag is in the session state, and only then.
C16_SessionKeepsLastRun ==
    /\ (pc = "done" /\ status \notin {"no_keys", "idle"}) =>
          /\ {"merged_df", "df1_filtered", "df2_filtered", "merge_columns"} \subseteq session_state.keys
          /\ session_state.merged_df = merged_df
          /\ session_state.df1_filtered = df1_filtered
          /\ session_state.df2_filtered = df2_filtered
          /\ session_state.merge_columns = merge_columns
          /\ status # "derive_error" =>
                /\ {"filtered_df", "analysis_completed"} \subseteq session_state.keys
                /\ session_state.filtered_df = filtered_df
    /\ (pc = "done" /\ merge_columns # {}) =>
          (status = "idle" <=> (~button /\ "analysis_completed" \notin session_state.keys))

\* A run that merged and analysed without the button being pressed.
C16_Witness ==
    /\ pc = "done" /\ status = "ok"
    /\ ~button
    /\ session_state.merged_df = merged_df
    /\ Len(merged_df.rows) > 0


\* C17: each derived column (ActualCT, Efficiency) is in the derived table,
\* on every row, exactly when all of its source columns are in the merged
\* table, and is absent otherwise; rows never differ in this.
C17_DerivedColumnIffSources ==
    filter_ran =>
        /\ "ActualCT" \in merged_df.columns
              <=> {"OperatorHours", "ActualOutput"} \subseteq merged_df.columns
        /\ "Efficiency" \in merged_df.columns
              <=> {"ActualOutput", "TheoreticalOutput"} \subseteq merged_df.columns
        /\ \A k \in 1..Len(merged_df.rows) : DOMAIN merged_df.rows[k].v = merged_df.columns

\* A derived table of two rows with ActualCT and without Efficiency.
C17_Witness ==
    /\ filter_ran
    /\ Len(merged_df.rows) = 2
    /\ "ActualCT" \in merged_df.columns
    /\ "Efficiency" \notin merged_df.columns


\* The columns the quality predicates refer to.
PredicateColumns ==
    {"OperatorHours", "ActualOutput", "ActualCT", "Efficiency", "Name", "Station", "StandardCT"}

\* C18: if the merged table has none of the columns the quality predicates
\* refer to, the filter returns its input table unchanged (the same rows in
\* the same order, none dropped), and says that it did not filter, which
\* tells this outcome from a filter that dropped every row.
C18_NoPredicateColumnNoOp ==
    (filter_ran /\ PredicateColumns \cap merged_df.columns = {}) =>
        /\ filtered_df = merged_df
        /\ notice \in {"no_columns", "no_conditions"}


\* The cells of row r in the key columns.
KeyCells(r) == [c \in merge_columns |-> r.v[c]]

\* The columns of the merged table that come from the second file only.
RightSideColumns == {"Name"} \cup (IF "Line" \in merge_columns THEN {} ELSE {"Line_f2"})

\* C19: in a left join, every row of the key-cleaned first table whose key
\* does not occur in the second table is in the merged table exactly once,
\* with every column of the second table missing.
C19_LeftJoinKeepsUnmatched ==
    (pc = "done" /\ merge_method = "left") =>
        \A i \in 1..Len(df1_filtered.rows) :
            (\A j \in 1..Len(df2_filtered.rows) :
                 KeyCells(df2_filtered.rows[j]) # KeyCells(df1_filtered.rows[i]))
            => LET same == {k \in 1..Len(merged_df.rows) :
                              KeyCells(merged_df.rows[k]) = KeyCells(df1_filtered.rows[i])}
               IN /\ Cardinality(same)
                       = Cardinality({l \in 1..Len(df1_filtered.rows) :
                                        KeyCells(df1_filtered.rows[l]) = KeyCells(df1_filtered.rows[i])})
                  /\ \A k \in same :
                        /\ \A c \in RightSideColumns : isna(merged_df.rows[k].v[c])
                        /\ merged_df.rows[k].v["StandardCT"] = df1_filtered.rows[i].v["StdWork"]

\* A left join with a matched and an unmatched row of the first table.
C19_Witness ==
    /\ pc = "done" /\ merge_method = "left"
    /\ \E k, l \in 1..Len(merged_df.rows) :
          isna(merged_df.rows[k].v["Name"]) /\ notna(merged_df.rows[l].v["Name"])


\* The label a column of the first (second) file has after the renaming.
Canonical1(l) == CASE l = "WorkTime" -> "StdWork" [] l = "WorkContent" -> "Station" [] OTHER -> l
Canonical2(l) == CASE l = "Output" -> "ActualOutput" [] l = "RunHours" -> "OperatorHours" [] OTHER -> l

\* C20: the renaming gives each column of a file the canonical label of
\* the file's mapping if its label is a source of it and leaves every other
\* label, and the number and order of the columns, as they are; applied to
\* its own result it changes nothing.
C20_NormalizeIdempotentPassThrough ==
    [][pc = "uploaded" =>
          /\ Len(labels'.file1) = Len(labels.file1)
          /\ Len(labels'.file2) = Len(labels.file2)
          /\ \A i \in 1..Len(labels.file1) : labels'.file1[i] = Canonical1(labels.file1[i])
          /\ \A i \in 1..Len(labels.file2) : labels'.file2[i] = Canonical2(labels.file2[i])
          /\ normalize_1(labels'.file1) = labels'.file1
          /\ normalize_2(labels'.file2) = labels'.file2]_vars

\* Files read and renamed: the first had both a source and its target,
\* the second a source of the first file's mapping, which it keeps.
C20_Witness ==
    /\ pc = "ready"
    /\ \E i, j \in 1..Len(labels.file1) :
          i # j /\ labels.file1[i] = "StdWork" /\ labels.file1[j] = "StdWork"
    /\ "WorkTime" \in Range(labels.file2)
    /\ "ActualOutput" \in Range(labels.file2)

\* The filtered table of lines 746-852 for the widgets of this interaction
\* alone: the two files, the selected keys and the selected mode.
CurrentFiltered ==
    quality_filter(add_efficiency(add_actual_ct(rename_standard_ct(
        merge(clean_keys(df1, merge_columns), clean_keys(df2, merge_columns),
              merge_columns, merge_method)))))

\* The script runs from the widgets to the advanced analysis of line 921.
AnalyticsStep ==
    pc = "ready" /\ pc' = "done" /\ status' \in {"ok", "analysis_skipped", "analysis_error"}

\* C21: in every interaction that reaches the analytics, the table analysed
\* is the filtered table computed in that interaction from the current
\* files, keys and mode, whatever an earlier interaction left in the
\* session state: the stored filtered table is replaced by it before the
\* analytics reads it, and the analysis tables are the ones of that table.
C21_AnalyticsReadsCurrentFilteredTable ==
    [][AnalyticsStep =>
         /\ filtered_df' = CurrentFiltered
         /\ session_state'.filtered_df = CurrentFiltered
         /\ base_df(session_state', filtered_df', merged_df') = CurrentFiltered
         /\ IF can_analyse(CurrentFiltered)
            THEN /\ status' # "analysis_skipped"
                 /\ analysis_df' = make_analysis_df(CurrentFiltered)
                 /\ low_efficiency' = compute_low_efficiency(analysis_df')
                 /\ high_efficiency' = compute_high_efficiency(analysis_df')
                 /\ station_metrics' = compute_station_metrics(analysis_df')
            ELSE status' = "analysis_skipped"]_vars

\* A later interaction (the button is not pressed, so an earlier one
\* completed and left its tables in the session state) analysed a row.
C21_Witness ==
    /\ pc = "done" /\ status = "ok" /\ ~button
    /\ "filtered_df" \in session_state.keys
    /\ len(analysis_df) = 1

\* The completion flag of lines 825, 846, 851 is in the session state.
Completed(ss) == "analysis_completed" \in ss.keys

\* The join of line 746 for the widgets of this interaction.
CurrentMerge ==
    merge(clean_keys(df1, merge_columns), clean_keys(df2, merge_columns),
          merge_columns, merge_method)

\* The parts of C22 that do not depend on how an interaction ends: the flag
\* is first set by a run of the script whose merge and derivation went
\* through (it did not end at the derivation), it is never removed, and
\* with it the session state holds a merged and a filtered table.
FlagSetOnSuccessAndKept ==
    /\ [](Completed(session_state) =>
            {"merged_df", "filtered_df"} \subseteq session_state.keys)
    /\ [][/\ Completed(session_state) => Completed(session_state')
          /\ (~Completed(session_state) /\ Completed(session_state')) =>
                /\ pc = "ready" /\ pc' = "done"
                /\ status' \notin {"derive_error", "no_keys", "idle"}
                /\ len(merged_df') = len(CurrentMerge)
                /\ session_state'.filtered_df = CurrentFiltered]_vars

\* An interaction that starts with the flag set and a key selected.
FlaggedInteraction ==
    pc = "ready" /\ pc' = "done" /\ Completed(session_state) /\ has_keys(merge_columns)

RatioWithin(x, loN, loD, loOpen, hiN, hiD, hiOpen) ==
    /\ IsNum(x)
    /\ IF loOpen THEN ~AtMost(x, loN, loD) ELSE AtLeast(x, loN, loD)
    /\ IF hiOpen THEN ~AtLeast(x, hiN, hiD) ELSE AtMost(x, hiN, hiD)

\* C23: in every interaction in which the analytics executes, the quality
\* filter was active, and every analysed row has a Station that is not
\* missing, a Name that is not missing and not one of MFGR, MFG_R, and an
\* efficiency ratio that is a number in [0.2, 1.5]; so every LowEfficiency
\* row has a ratio in [0.2, 0.8) and every HighEfficiency row one in
\* (1.05, 1.5].
C23_AnalysedRowsPassQuality ==
    analysis_ran =>
        /\ notice = "filtered"
        /\ \A i \in 1..len(analysis_df) :
              LET v == analysis_df.rows[i].v
              IN /\ Present(v["Station"])
                 /\ Present(v["Name"])
                 /\ v["Name"] \notin {sMFGR, sMFG_R}
                 /\ RatioWithin(v["Efficiency"], 1, 5, FALSE, 3, 2, FALSE)
        /\ \A i \in 1..len(low_efficiency) :
              RatioWithin(low_efficiency.rows[i].v["Efficiency"], 1, 5, FALSE, 4, 5, TRUE)
        /\ \A i \in 1..len(high_efficiency) :
              RatioWithin(high_efficiency.rows[i].v["Efficiency"], 21, 20, TRUE, 3, 2, FALSE)

\* The analytics ran on a table from which the filter removed a row and
\* found a low-efficiency row.
C23_Witness ==
    /\ analysis_ran /\ status = "ok"
    /\ len(analysis_df) < len(merged_df)
    /\ len(low_efficiency) >= 1

\* The merged table has the three columns the cycle time and the
\* efficiency are derived from, and the filter ran on it.
CycleColumns ==
    filter_ran /\ {"OperatorHours", "ActualOutput", "TheoreticalOutput"} \subseteq merged_df.columns

\* A kept row has an output above 0 and at least 0.03 hours.
KeptOutputAndHours(v) ==
    /\ IsNum(v["ActualOutput"]) /\ ~AtMost(v["ActualOutput"], 0, 1)
    /\ notna(v["OperatorHours"]) /\ AtLeast(v["OperatorHours"], 3, 100)

\* C24 as stated: with the OperatorHours, ActualOutput and
\* TheoreticalOutput columns in the merged table, every row the filter
\* keeps has ActualOutput > 0 and OperatorHours >= 0.03, so its ActualCT
\* is a finite number above 0.
C24_KeptRowsFiniteCycleTime ==
    CycleColumns =>
        \A i \in 1..len(filtered_df) :
            LET v == filtered_df.rows[i].v
            IN /\ KeptOutputAndHours(v)
               /\ IsNum(v["ActualCT"]) /\ ~AtMost(v["ActualCT"], 0, 1)

\* C24, amended: every kept row has ActualOutput > 0 and OperatorHours >=
\* 0.03, so its ActualCT is above 0; it is the finite number
\* hours * 3600 / output when the hours are finite, and infinite when the
\* hours are.  No row with a zero output is kept.
C24_KeptRowsPositiveCycleTime ==
    CycleColumns =>
        /\ \A i \in 1..len(filtered_df) :
              LET v == filtered_df.rows[i].v
                  h == v["OperatorHours"]
                  o == v["ActualOutput"]
                  ct == v["ActualCT"]
              IN /\ KeptOutputAndHours(v)
                 /\ notna(ct) /\ ~AtMost(ct, 0, 1)
                 /\ IF IsNum(h)
                    THEN IsNum(ct) /\ ct.n * o.n * h.d = h.n * 3600 * o.d * ct.d
                    ELSE ct = PosInf
        /\ \A k \in 1..len(merged_df) :
              merged_df.rows[k].v["ActualOutput"] = Num(0)
                 => merged_df.rows[k].idx \notin KeptLabels

\* The filter dropped a zero-output row whose cycle time is infinite and
\* kept another row.
C24_Witness ==
    /\ CycleColumns
    /\ len(filtered_df) >= 1
    /\ \E k \in 1..len(merged_df) :
          /\ merged_df.rows[k].v["ActualOutput"] = Num(0)
          /\ merged_df.rows[k].v["ActualCT"] = PosInf
          /\ merged_df.rows[k].idx \notin KeptLabels

\* The masks of lines 798-817 without the one of line 807.
ConditionsWithoutText(sel) ==
    (IF "OperatorHours" \in sel.columns THEN <<mask_of(sel, cond_hours)>> ELSE <<>>)
    \o (IF "ActualOutput" \in sel.columns THEN <<mask_of(sel, cond_output)>> ELSE <<>>)
    \o (IF "ActualCT" \in sel.columns THEN <<mask_of(sel, cond_actual_ct)>> ELSE <<>>)
    \o (IF "Name" \in sel.columns THEN <<mask_of(sel, cond_reserved_name)>> ELSE <<>>)
    \o (IF "EfficiencyValue" \in sel.columns THEN <<mask_of(sel, cond_efficiency_range)>> ELSE <<>>)
    \o (IF "Station" \in sel.columns THEN <<mask_of(sel, cond_station)>> ELSE <<>>)
    \o (IF "StandardCT" \in sel.columns THEN <<mask_of(sel, cond_standard_ct)>> ELSE <<>>)
    \o (IF "Name" \in sel.columns THEN <<mask_of(sel, cond_name)>> ELSE <<>>)

KeptWithoutText(sel) ==
    IF ConditionsWithoutText(sel) # <<>>
    THEN boolean_index(sel, logical_and_reduce(ConditionsWithoutText(sel)))
    ELSE sel

\* C25: the predicate on the efficiency text (not 0.0%, inf%, nan%) and
\* the predicate on the efficiency percent (between 20 and 150) are active
\* together, every row the second accepts the first accepts too, and the
\* filter without the text predicate keeps exactly the same rows.
C25_TextPredicateSubsumed ==
    (filter_ran /\ available_columns(merged_df) # {}) =>
        \E sel \in {select_convert(merged_df)} :
           /\ "Efficiency" \in sel.columns <=> "EfficiencyValue" \in sel.columns
           /\ "Efficiency" \in sel.columns =>
                 \A i \in 1..len(sel) :
                    cond_efficiency_range(sel.rows[i].v) => cond_efficiency_text(sel.rows[i].v)
           /\ filtered_df = KeptWithoutText(sel)

\* The filter ran on a table with a row whose efficiency text is inf%,
\* which the text predicate rejects, and kept another row.
C25_Witness ==
    /\ filter_ran
    /\ "Efficiency" \in merged_df.columns
    /\ len(filtered_df) >= 1
    /\ \E k \in 1..len(merged_df) :
          /\ merged_df.rows[k].v["Efficiency"] = Str(<<"i", "n", "f", "%">>)
          /\ ~cond_efficiency_text(merged_df.rows[k].v)
          /\ merged_df.rows[k].idx \notin KeptLabels

\* The script went past line 743 in this interaction.
MergeRan == pc = "done" /\ status \notin {"none", "idle", "no_keys"}

\* C26: whenever the analytics executes, the merged table has at least
\* one row; a join of zero rows ends the interaction as a reported merge
\* error (the division of line 914) without any analytics output, with
\* the completion flag and the merged and filtered tables of that
\* interaction already in the session state.
C26_ZeroRowMergeEndsBeforeAnalytics ==
    /\ (pc = "done" /\ status \in {"ok", "analysis_skipped", "analysis_error"})
          => len(merged_df) >= 1
    /\ (MergeRan /\ len(merged_df) = 0) =>
          /\ status = "stats_error"
          /\ NoAnalyticsOutput
          /\ Completed(session_state)
          /\ {"merged_df", "filtered_df"} \subseteq session_state.keys
          /\ session_state.merged_df = merged_df
          /\ session_state.filtered_df = filtered_df

\* Two files with rows but no part number in common were joined: no
\* row, a merge error, and the flag in the session state.
C26_Witness ==
    /\ MergeRan /\ status = "stats_error"
    /\ len(df1) >= 1 /\ len(df2) >= 1 /\ len(merged_df) = 0
    /\ Completed(session_state)

====
